---- MODULE Spec2Model ----
(***************************************************************************)
(* Model of xml-tree-viewer: the XML normaliser (xmlParser.ts), the three  *)
(* renderers (text outline, object view, Mermaid markup), the DTD skeleton *)
(* builder (dtdToXml.ts), the sidebar provider (treeDataProvider.ts), the  *)
(* panel (webviewPanel.ts) and the editor event handlers (extension.ts).   *)
(*                                                                         *)
(* A JavaScript string is a sequence of atoms.  An atom is a TLA+ string   *)
(* that stands for one character ("\n", "<", "&") or for an indivisible    *)
(* run of ordinary characters ("a", "constructor", "#text").               *)
(* An optional value (T | undefined) is a sequence of length 0 or 1.       *)
(***************************************************************************)
EXTENDS Integers, Sequences, FiniteSets, Bags, TLC

\* ------------------------------------------------------------------ bounds
\* Largest number of items (elements, text runs, comments, declarations) in
\* one parse result.
MaxItems == 3
\* Largest number of child names in one content model.
MaxChildren == 2
\* Largest number of generateMermaidMarkup calls on one tree.
MaxCalls == 2

\* ------------------------------------------------------------------ state
\* parsed         the parser's result for the document of this render request
\* tree           parseXml's result
\* errorMessage   the message of the error parseXml threw, if it threw
\* textTree       generateTextTree(tree)
\* mermaidMarkup  generateMermaidMarkup(tree), as a list of lines
\* idVisits       which node each pass of generateMermaidMarkup numbered how
\* markupCalls    how many generateMermaidMarkup calls were made on the tree,
\*                and what the first of them returned
\* jsonObject     xmlNodeToObject(tree)
\* grammar        the DTD grammar of a generateXmlFromDtd call
\* dtdPc          "idle", "start" (called), "building", "done" (returned),
\*                "error" (threw: no declarations), "overflow" (threw: call
\*                stack exhausted)
\* dtdRoot        inferRootElementName's result
\* dtdStack       the activations of buildElement, innermost last
\* dtdResult      generateXmlFromDtd's return value
\* dtdSteps       how many steps the call has taken (for the analysis only)
\* documents      the open text documents: file name and text
\* activeEditor   vscode.window.activeTextEditor: the document it shows
\* rootNode       XmlTreeDataProvider._rootNode
\* panel          XmlTreePanel.currentPanel: its title and webview.html
\* panels         the XmlTreePanels created so far, in order of creation
\* currentPanel   XmlTreePanel.currentPanel: <<>> or <<the panel's number>>
\* saves          the PendingImageSave objects created so far; a saveId is an
\*                object's number
\* timers         the armed timeouts
\* dialogs        the message handlers waiting in showSaveDialog
\* writes         the chunk handlers waiting in writeFile
\* files          the writeFile calls of chunk handlers, in order: the
\*                session and the bytes
\* lastPost       the last message posted to a webview
VARIABLES parsed, tree, errorMessage, textTree, mermaidMarkup, idVisits, markupCalls,
          jsonObject, grammar, dtdPc, dtdRoot, dtdStack, dtdResult, dtdSteps,
          documents, activeEditor, rootNode, panel,
          panels, currentPanel, saves, timers, dialogs, writes, files, lastPost

renderVars == <<parsed, tree, errorMessage, textTree, mermaidMarkup, idVisits, markupCalls,
                jsonObject>>
dtdVars == <<grammar, dtdPc, dtdRoot, dtdStack, dtdResult, dtdSteps>>
hostVars == <<documents, activeEditor, rootNode, panel>>
panelVars == <<panels, currentPanel, saves, timers, dialogs, writes, files, lastPost>>
vars == <<parsed, tree, errorMessage, textTree, mermaidMarkup, idVisits, markupCalls,
          jsonObject, grammar, dtdPc, dtdRoot, dtdStack, dtdResult, dtdSteps,
          documents, activeEditor, rootNode, panel,
          panels, currentPanel, saves, timers, dialogs, writes, files, lastPost>>

\* ------------------------------------------------------- generic helpers
Range(s) == {s[i] : i \in 1..Len(s)}

RECURSIVE Count(_, _)
\* Number of occurrences of atom c in string s.
Count(s, c) ==
  IF s = <<>> THEN 0
  ELSE (IF Head(s) = c THEN 1 ELSE 0) + Count(Tail(s), c)

\* ---------------------------------------------- the external parser's output
\* fast-xml-parser with preserveOrder: an array of items.  An item is an
\* object with one content key (a tag name, "#text", "#comment", "?xml") and,
\* when the tag carries attributes, the attribute carrier ":@".
\*   key   the content key (<<>>: the item has none)
\*   vt    what item[key] is: "array", "string", "none" (no content key);
\*         "null" when the item itself is null
\*   text  item[key] when it is a string, else unused
\*   kids  item[key] when it is an array of items, else unused
\*   attrs item[":@"] as a list of [k, v]; <<>> when the item has no ":@" key
XmlDeclKey == <<"?xml">>
AttrCarrierKey == <<":@">>
TextKey == <<"#text">>
CommentKey == <<"#comment">>
AttrPrefix == "@_"

\* "_" is always an atom of its own, so that "_" + "id" and "_id" are the same string.
TagNames == {<<"a">>, <<"_", "id">>, <<"constructor">>}
TextValues == {<<"x">>, <<"x", "\n", "y">>}
IdAttribute == <<[k |-> <<AttrPrefix, "id">>, v |-> <<"1">>]>>

TextItem(t) == [key |-> TextKey, vt |-> "string", text |-> t, kids |-> <<>>, attrs |-> <<>>]
ElementItem(tag, as, ks) == [key |-> tag, vt |-> "array", text |-> <<>>, kids |-> ks, attrs |-> as]
\* <!-- x --> is reported as {"#comment": [{"#text": " x "}]}
CommentItem ==
  [key |-> CommentKey, vt |-> "array", text |-> <<>>, kids |-> <<TextItem(<<"x">>)>>, attrs |-> <<>>]
\* <?xml version="1"?> is reported as {"?xml": [{"#text": ""}], ":@": {...}}
DeclItem ==
  [key |-> XmlDeclKey, vt |-> "array", text |-> <<>>, kids |-> <<TextItem(<<>>)>>,
   attrs |-> <<[k |-> <<AttrPrefix, "version">>, v |-> <<"1">>]>>]

IsTextItem(it) == it.key = TextKey
\* The items that stand for an element of the document.
IsElementItem(it) == it.key \in TagNames

\* The opening tags of the documents considered: <a> and <a id="1"> for
\* elements with any content, <_id> and <constructor> for empty elements.
ElementHeads == {[tag |-> <<"a">>, attrs |-> <<>>], [tag |-> <<"a">>, attrs |-> IdAttribute]}
EmptyElementHeads == {[tag |-> t, attrs |-> <<>>] : t \in TagNames \ {<<"a">>}}

RECURSIVE ItemsOfSize(_), ForestsOfSize(_)
\* The items inside an element that stand for exactly n items of the source
\* (an element counts itself and what it contains).
ItemsOfSize(n) ==
  IF n = 0 THEN {}
  ELSE {ElementItem(h.tag, h.attrs, ks) : h \in ElementHeads, ks \in ForestsOfSize(n - 1)}
       \cup (IF n = 1
             THEN {ElementItem(h.tag, h.attrs, <<>>) : h \in EmptyElementHeads}
                  \cup {TextItem(t) : t \in TextValues} \cup {CommentItem}
             ELSE {})
\* The child arrays of exactly n items.  Every run of character data and
\* every CDATA section is a text item of its own, so text items can be
\* neighbours (<a>x<![CDATA[y]]></a>).
ForestsOfSize(n) ==
  IF n = 0 THEN {<<>>}
  ELSE UNION {{<<it>> \o rest : it \in ItemsOfSize(k), rest \in ForestsOfSize(n - k)} : k \in 1..n}

\* Whole parse results: an optional declaration, then elements and comments.
TopForests(n) ==
  {f \in UNION {ForestsOfSize(k) : k \in 0..n} : \A i \in 1..Len(f) : ~IsTextItem(f[i])}
ParseResults ==
  TopForests(MaxItems) \cup {<<DeclItem>> \o f : f \in TopForests(MaxItems - 1)}

\* --------------------------------------------------------------- XmlNode
XmlNode(tag, as, txt, ks) ==
  [tagName |-> tag, attributes |-> as, textContent |-> txt, children |-> ks]

\* Object.keys(item): the content key, then ":@" when present.
ObjectKeys(it) ==
  (IF it.key = <<>> THEN <<>> ELSE <<it.key>>)
  \o (IF it.attrs = <<>> THEN <<>> ELSE <<AttrCarrierKey>>)

RECURSIVE ReplaceFirst(_, _)
\* String.prototype.replace(pattern, ''): removes the first occurrence.
ReplaceFirst(s, pat) ==
  IF s = <<>> THEN <<>>
  ELSE IF Head(s) = pat THEN Tail(s)
  ELSE <<Head(s)>> \o ReplaceFirst(Tail(s), pat)

RECURSIVE SetAttr(_, _, _)
\* obj[k] = v on an insertion-ordered object.
SetAttr(as, k, v) ==
  IF as = <<>> THEN <<[k |-> k, v |-> v]>>
  ELSE IF Head(as).k = k THEN <<[k |-> k, v |-> v]>> \o Tail(as)
  ELSE <<Head(as)>> \o SetAttr(Tail(as), k, v)

RECURSIVE ExtractAttributes(_, _)
ExtractAttributes(raw, acc) ==
  IF raw = <<>> THEN acc
  ELSE ExtractAttributes(Tail(raw), SetAttr(acc, ReplaceFirst(Head(raw).k, AttrPrefix), Head(raw).v))

\* Mutant of AssignText: the text runs are concatenated.
AssignTextConcatenated(node, child) == [node EXCEPT !.textContent = @ \o child.text]

\* node.textContent = String(child['#text'])
AssignText(node, child) == [node EXCEPT !.textContent = child.text]

RECURSIVE convertOrderedToTree(_), ConvertKeys(_, _), ProcessChildren(_, _)
\* The loop over a child array: a text child overwrites textContent, any
\* other child is converted and its nodes appended.
ProcessChildren(childArray, node) ==
  IF childArray = <<>> THEN node
  ELSE LET child == Head(childArray) IN
       IF IsTextItem(child)
       THEN ProcessChildren(Tail(childArray), AssignText(node, child))
       ELSE ProcessChildren(Tail(childArray),
              [node EXCEPT !.children = @ \o convertOrderedToTree(<<child>>)])

\* The loop over Object.keys(item).
ConvertKeys(item, keys) ==
  IF keys = <<>> THEN <<>>
  ELSE LET key == Head(keys) IN
       IF key = XmlDeclKey \/ key = AttrCarrierKey \/ key = TextKey
       THEN ConvertKeys(item, Tail(keys))
       ELSE LET node == XmlNode(key, ExtractAttributes(item.attrs, <<>>), <<>>, <<>>)
            IN <<IF item.vt = "array" THEN ProcessChildren(item.kids, node) ELSE node>>
               \o ConvertKeys(item, Tail(keys))

convertOrderedToTree(orderedArray) ==
  IF orderedArray = <<>> THEN <<>>
  ELSE ConvertKeys(Head(orderedArray), ObjectKeys(Head(orderedArray)))
       \o convertOrderedToTree(Tail(orderedArray))

RECURSIVE ConvertThrows(_)
\* The parse results on which convertOrderedToTree raises a TypeError:
\* Object.keys(item) and child['#text'] do for a null item.
ConvertThrows(orderedArray) ==
  \E i \in 1..Len(orderedArray) :
    LET item == orderedArray[i] IN
    \/ item.vt = "null"
    \/ /\ item.key \notin {<<>>, XmlDeclKey, TextKey}
       /\ item.vt = "array"
       /\ ConvertThrows(item.kids)

DocumentTag == <<"(document)">>

\* parseXml from the parser's result on: orderedResult is parser.parse(xmlString).
parseXml(orderedResult) ==
  LET rootNodes == convertOrderedToTree(orderedResult) IN
  IF Len(rootNodes) = 1 THEN rootNodes[1]
  ELSE XmlNode(DocumentTag, <<>>, <<>>, rootNodes)

\* ------------------------------------------------- node classification
\* node.children.length === 0 && node.textContent
IsLeaf(node) == node.children = <<>> /\ node.textContent # <<>>
IsBranch(node) == node.children # <<>>
IsEmpty(node) == node.children = <<>> /\ node.textContent = <<>>

RECURSIVE NodeCount(_), ForestNodeCount(_)
NodeCount(node) == 1 + ForestNodeCount(node.children)
ForestNodeCount(ns) == IF ns = <<>> THEN 0 ELSE NodeCount(Head(ns)) + ForestNodeCount(Tail(ns))

\* A node of a tree is named by its path: the child indices from the root.
RECURSIVE NodeAt(_, _)
NodeAt(node, path) == IF path = <<>> THEN node ELSE NodeAt(node.children[Head(path)], Tail(path))

RECURSIVE PreorderPaths(_, _), PreorderKids(_, _, _)
\* The paths of the tree's nodes in document (pre-)order.
PreorderPaths(node, path) == <<path>> \o PreorderKids(node, path, 1)
PreorderKids(node, path, i) ==
  IF i > Len(node.children) THEN <<>>
  ELSE PreorderPaths(node.children[i], Append(path, i)) \o PreorderKids(node, path, i + 1)

\* ------------------------------------------------------ generateTextTree
\* The box-drawing connectors are written in ASCII:
\*   "+-- " for the corner, "|-- " for the tee, "|   " for the bar.
Newline == "\n"

RECURSIVE JoinStrings(_, _)
\* Array.prototype.join(sep)
JoinStrings(ss, sep) ==
  IF ss = <<>> THEN <<>>
  ELSE IF Len(ss) = 1 THEN ss[1]
  ELSE ss[1] \o sep \o JoinStrings(Tail(ss), sep)

TextTreeAttrs(node) ==
  JoinStrings([i \in 1..Len(node.attributes) |->
                 node.attributes[i].k \o <<"=", "\"">> \o node.attributes[i].v \o <<"\"">>],
              <<" ">>)

TextTreeDisplay(node) ==
  LET attrs == TextTreeAttrs(node)
      tag == IF attrs # <<>> THEN <<"<">> \o node.tagName \o <<" ">> \o attrs \o <<">">>
             ELSE <<"<">> \o node.tagName \o <<">">>
  IN IF IsLeaf(node) THEN tag \o <<" -> ", "\"">> \o node.textContent \o <<"\"">> ELSE tag

TextTreeConnector(isLast, isRoot) ==
  IF isRoot THEN <<>> ELSE (IF isLast THEN <<"+-- ">> ELSE <<"|-- ">>)

\* Mutant of TextTreeChildIndent: the bar is drawn below a last child too.
TextTreeChildIndentAlwaysBar(isLast, isRoot) == IF isRoot THEN <<>> ELSE <<"|   ">>

TextTreeChildIndent(isLast, isRoot) ==
  IF isRoot THEN <<>> ELSE (IF isLast THEN <<"    ">> ELSE <<"|   ">>)

RECURSIVE generateTextTree(_, _, _, _), TextTreeChildren(_, _, _)
generateTextTree(node, indent, isLast, isRoot) ==
  LET connector == TextTreeConnector(isLast, isRoot)
      childIndent == TextTreeChildIndent(isLast, isRoot)
  IN indent \o connector \o TextTreeDisplay(node) \o <<Newline>>
     \o TextTreeChildren(node, indent \o childIndent, 1)
TextTreeChildren(node, indent, i) ==
  IF i > Len(node.children) THEN <<>>
  ELSE generateTextTree(node.children[i], indent, i = Len(node.children), FALSE)
       \o TextTreeChildren(node, indent, i + 1)

\* ------------------------------------------------- generateMermaidMarkup
RECURSIVE ReplaceAll(_, _, _)
\* String.prototype.replace(/c/g, r)
ReplaceAll(s, c, r) ==
  IF s = <<>> THEN <<>>
  ELSE (IF Head(s) = c THEN <<r>> ELSE <<Head(s)>>) \o ReplaceAll(Tail(s), c, r)

escapeLabel(text) ==
  ReplaceAll(ReplaceAll(ReplaceAll(ReplaceAll(text, "\"", "#quot;"), "<", "#lt;"), ">", "#gt;"), "&", "#amp;")

buildLabel(node) ==
  LET attrStr == JoinStrings([i \in 1..Len(node.attributes) |->
                    escapeLabel(node.attributes[i].k) \o <<"=">> \o escapeLabel(node.attributes[i].v)],
                    <<"<br/>">>)
      withAttrs == IF Len(node.attributes) > 0
                   THEN escapeLabel(node.tagName) \o <<"<br/>">> \o attrStr
                   ELSE escapeLabel(node.tagName)
  IN IF IsLeaf(node)
     THEN withAttrs \o <<"<br/>", "<b>">> \o escapeLabel(node.textContent) \o <<"</b>">>
     ELSE withAttrs

\* One line of the markup.  Identifiers are kept as numbers: id k is printed N<k>.
\*   decl       N<id>("<label>") (shape "round") or N<id>["<label>"] ("box")
\*   edge       N<from> --> N<id>
\*   class      class N<ids[1]>,N<ids[2]>,... <cls>
MLine(kind, id, from, shape, label, ids, cls) ==
  [kind |-> kind, id |-> id, from |-> from, shape |-> shape, label |-> label, ids |-> ids, cls |-> cls]
HeaderLine == MLine("graph TD", 0, 0, "", <<>>, <<>>, "")
DeclLine(id, shape, label) == MLine("decl", id, 0, shape, label, <<>>, "")
EdgeLine(from, id) == MLine("edge", id, from, "", <<>>, <<>>, "")
BlankLine == MLine("blank", 0, 0, "", <<>>, <<>>, "")
ClassDefLine(cls) == MLine("classDef", 0, 0, "", <<>>, <<>>, cls)
ClassLine(ids, cls) == MLine("class", 0, 0, "", <<>>, ids, cls)

NodeShape(node) ==
  IF node.children = <<>> /\ node.textContent # <<>> THEN "round"
  ELSE IF Len(node.children) > 0 THEN "box"
  ELSE "box"

\* Mutant of getNodeId: pre-increment, `N${++counter}`.
getNodeIdPreIncrement(counter) == [id |-> counter + 1, counter |-> counter + 1]

\* `N${counter++}`: the identifier drawn and the counter afterwards.
getNodeId(counter) == [id |-> counter, counter |-> counter + 1]

\* Mutant of ConnectToParent: the edge is drawn from the node to its parent.
ConnectToParentReversed(lines, parentId, nodeId) ==
  IF parentId # <<>> THEN Append(lines, EdgeLine(nodeId, parentId[1])) ELSE lines

\* if (parentId !== undefined) lines.push(`${parentId} --> ${nodeId}`)
ConnectToParent(lines, parentId, nodeId) ==
  IF parentId # <<>> THEN Append(lines, EdgeLine(parentId[1], nodeId)) ELSE lines

\* The emit pass.  st is the closure state: counter, lines, and (for the
\* analysis only) visits: which node, named by its path, drew which identifier.
RECURSIVE processNode(_, _, _, _), ProcessNodeChildren(_, _, _, _, _)
processNode(node, parentId, path, st) ==
  LET drawn == getNodeId(st.counter)
      nodeId == drawn.id
      declared == Append(st.lines, DeclLine(nodeId, NodeShape(node), buildLabel(node)))
      connected == ConnectToParent(declared, parentId, nodeId)
      st1 == [counter |-> drawn.counter, lines |-> connected,
              visits |-> Append(st.visits, [id |-> nodeId, path |-> path])]
  IN ProcessNodeChildren(node, nodeId, path, 1, st1)
ProcessNodeChildren(node, nodeId, path, i, st) ==
  IF i > Len(node.children) THEN st
  ELSE ProcessNodeChildren(node, nodeId, path, i + 1,
         processNode(node.children[i], <<nodeId>>, Append(path, i), st))

\* Mutant of StyleListOf: the root is classified like any other node.
StyleListOfIgnoringRoot(node, isRoot) ==
  IF Len(node.children) > 0 THEN "branch" ELSE "leaf"

\* The list classifyNodes pushes a node's identifier to.
StyleListOf(node, isRoot) ==
  IF ~isRoot
  THEN (IF Len(node.children) > 0 THEN "branch" ELSE "leaf")
  ELSE "none"

\* The classification pass.  st: id.current, branchIds, leafIds, and visits.
RECURSIVE classifyNodes(_, _, _, _), ClassifyChildren(_, _, _, _)
classifyNodes(node, isRoot, path, st) ==
  LET currentId == st.current
      list == StyleListOf(node, isRoot)
      st1 == [current |-> st.current + 1,
              branchIds |-> IF list = "branch" THEN Append(st.branchIds, currentId) ELSE st.branchIds,
              leafIds |-> IF list = "leaf" THEN Append(st.leafIds, currentId) ELSE st.leafIds,
              visits |-> Append(st.visits, [id |-> currentId, path |-> path])]
  IN ClassifyChildren(node, path, 1, st1)
ClassifyChildren(node, path, i, st) ==
  IF i > Len(node.children) THEN st
  ELSE ClassifyChildren(node, path, i + 1,
         classifyNodes(node.children[i], FALSE, Append(path, i), st))

\* Mutant of EmitPass: the counter is declared outside generateMermaidMarkup
\* and goes on from where the call before left it.
EmitPassCounterKept(root) ==
  processNode(root, <<>>, <<>>,
              [counter |-> markupCalls.count * NodeCount(root), lines |-> <<HeaderLine>>,
               visits |-> <<>>])

\* let counter = 0; const lines = ['graph TD']; processNode(root)
EmitPass(root) ==
  processNode(root, <<>>, <<>>, [counter |-> 0, lines |-> <<HeaderLine>>, visits |-> <<>>])
ClassifyPass(root) ==
  classifyNodes(root, TRUE, <<>>, [current |-> 0, branchIds |-> <<>>, leafIds |-> <<>>, visits |-> <<>>])

generateMermaidMarkup(root) ==
  LET emitted == EmitPass(root)
      classified == ClassifyPass(root)
      styled == emitted.lines \o
                <<BlankLine, ClassDefLine("root"), ClassDefLine("branch"), ClassDefLine("leaf"),
                  ClassLine(<<0>>, "root")>>
      withBranch == IF Len(classified.branchIds) > 0
                    THEN Append(styled, ClassLine(classified.branchIds, "branch")) ELSE styled
  IN IF Len(classified.leafIds) > 0
     THEN Append(withBranch, ClassLine(classified.leafIds, "leaf")) ELSE withBranch

\* ------------------------------------------------------- xmlNodeToObject
\* A JavaScript value: a string (t = "str"), an object (t = "obj", ents the
\* own properties [k, v] in insertion order), an array (t = "arr", ents the
\* elements, k unused), or no value because the call threw (t = "throw").
StrVal(s) == [t |-> "str", str |-> s, ents |-> <<>>]
ObjVal(ents) == [t |-> "obj", str |-> <<>>, ents |-> ents]
ArrVal(items) == [t |-> "arr", str |-> <<>>, ents |-> [i \in 1..Len(items) |-> [k |-> <<>>, v |-> items[i]]]]
Thrown == [t |-> "throw", str |-> <<>>, ents |-> <<>>]

\* Property names every object literal inherits from Object.prototype (tag
\* names of this model that are among them).  The parser renames __proto__.
ObjectPrototypeKeys == {<<"constructor">>, <<"toString">>, <<"valueOf">>, <<"hasOwnProperty">>}

HasOwn(ents, k) == \E i \in 1..Len(ents) : ents[i].k = k
GetOwn(ents, k) == ents[CHOOSE i \in 1..Len(ents) : ents[i].k = k].v

RECURSIVE SetProp(_, _, _)
\* obj[k] = v: an existing own property keeps its place.
SetProp(ents, k, v) ==
  IF ents = <<>> THEN <<[k |-> k, v |-> v]>>
  ELSE IF Head(ents).k = k THEN <<[k |-> k, v |-> v]>> \o Tail(ents)
  ELSE <<Head(ents)>> \o SetProp(Tail(ents), k, v)

RECURSIVE GroupChildren(_, _)
\* The grouping loop.  childGroups[name] reads an own property, else the
\* inherited one: an inherited function is truthy, is not initialised to [],
\* and has no push, so the call throws a TypeError (ok = FALSE).
GroupChildren(children, childGroups) ==
  IF children = <<>> THEN [ok |-> TRUE, groups |-> childGroups]
  ELSE LET name == Head(children).tagName IN
       IF HasOwn(childGroups, name)
       THEN GroupChildren(Tail(children),
              SetProp(childGroups, name, Append(GetOwn(childGroups, name), Head(children))))
       ELSE IF name \in ObjectPrototypeKeys
       THEN [ok |-> FALSE, groups |-> childGroups]
       ELSE GroupChildren(Tail(children), SetProp(childGroups, name, <<Head(children)>>))

RECURSIVE AddAttributes(_, _)
AddAttributes(obj, attributes) ==
  IF attributes = <<>> THEN obj
  ELSE AddAttributes(SetProp(obj, <<"_">> \o Head(attributes).k, StrVal(Head(attributes).v)),
                     Tail(attributes))

RECURSIVE xmlNodeToObject(_), PlaceGroups(_, _)
\* The loop over Object.entries(childGroups); [ok, obj].
PlaceGroups(groups, obj) ==
  IF groups = <<>> THEN [ok |-> TRUE, obj |-> obj]
  ELSE LET tagName == Head(groups).k
           children == Head(groups).v
           values == [i \in 1..Len(children) |-> xmlNodeToObject(children[i])]
       IN IF \E i \in 1..Len(values) : values[i].t = "throw"
          THEN [ok |-> FALSE, obj |-> obj]
          ELSE PlaceGroups(Tail(groups),
                 SetProp(obj, tagName, IF Len(children) = 1 THEN values[1] ELSE ArrVal(values)))

xmlNodeToObject(node) ==
  IF node.children = <<>> /\ node.textContent # <<>> THEN StrVal(node.textContent)
  ELSE LET grouped == GroupChildren(node.children, <<>>) IN
       IF ~grouped.ok THEN Thrown
       ELSE LET placed == PlaceGroups(grouped.groups, <<>>) IN
            IF ~placed.ok THEN Thrown
            ELSE LET withAttrs == AddAttributes(placed.obj, node.attributes) IN
                 IF node.textContent # <<>> /\ Len(node.children) > 0
                 THEN ObjVal(SetProp(withAttrs, TextKey, StrVal(node.textContent)))
                 ELSE ObjVal(withAttrs)

\* --------------------------------------------------------------- dtdToXml
\* The grammar typesxml's DTDParser returns:
\*   decls   the keys of getElementDeclMap(), in declaration order
\*   models  getContentModel(name) for each declared name: its type ("NONE"
\*           when there is no content model) and getChildren(), in order
\* The names a DTD declares (in any order, any subset), and a name its
\* content models mention without declaring it.
DeclarableNames == {"A", "B"}
ElementNames == DeclarableNames \cup {"U"}

RECURSIVE NoRepeatSeqs(_, _)
\* The sequences without repetition over S of length at most n.
NoRepeatSeqs(S, n) ==
  IF n = 0 THEN {<<>>}
  ELSE {<<>>} \cup
       {s \in {<<x>> \o rest : x \in S, rest \in NoRepeatSeqs(S, n - 1)} :
          \A k \in 2..Len(s) : s[k] # s[1]}

ChildLists == NoRepeatSeqs(ElementNames, MaxChildren)

ContentModels ==
  {[type |-> t, children |-> <<>>] : t \in {"NONE", "EMPTY", "PCDATA", "ANY"}}
  \cup {[type |-> "MIXED", children |-> c] : c \in ChildLists}
  \cup {[type |-> "ELEMENT", children |-> c] : c \in ChildLists \ {<<>>}}

Grammars ==
  UNION {{[decls |-> d, models |-> m] : m \in [Range(d) -> ContentModels]} :
           d \in NoRepeatSeqs(DeclarableNames, Cardinality(DeclarableNames))}

\* getElementAttributesMap(name): the <!ATTLIST> of each element name.
\*   <!ATTLIST A id ID #REQUIRED  lang CDATA #IMPLIED  v CDATA #FIXED "<&'v>&quot;">
\*   <!ATTLIST B note CDATA #IMPLIED  sep CDATA #FIXED "">
ElementAttributes(name) ==
  IF name = "A"
  THEN <<[name |-> "id", defaultDecl |-> "#REQUIRED", defaultValue |-> <<>>],
         [name |-> "lang", defaultDecl |-> "#IMPLIED", defaultValue |-> <<>>],
         [name |-> "v", defaultDecl |-> "#FIXED",
          defaultValue |-> <<"<", "&", "'", "v", ">", "\"">>]>>
  ELSE IF name = "B"
  THEN <<[name |-> "note", defaultDecl |-> "#IMPLIED", defaultValue |-> <<>>],
         [name |-> "sep", defaultDecl |-> "#FIXED", defaultValue |-> <<>>]>>
  ELSE <<>>

IsDeclared(g, name) == name \in Range(g.decls)

escapeAttribute(value) ==
  ReplaceAll(ReplaceAll(ReplaceAll(ReplaceAll(ReplaceAll(value,
    "&", "&amp;"), "\"", "&quot;"), "<", "&lt;"), ">", "&gt;"), "'", "&apos;")

RECURSIVE RenderAttributes(_)
\* The forEach of buildAttributes: the list `rendered`.
RenderAttributes(attrs) ==
  IF attrs = <<>> THEN <<>>
  ELSE LET a == Head(attrs) IN
       (IF a.defaultDecl = "#IMPLIED" THEN <<>>
        ELSE IF a.defaultDecl = "#REQUIRED" THEN <<<<a.name, "=", "\"", "\"">>>>
        ELSE IF Len(a.defaultValue) > 0
        THEN <<<<a.name, "=", "\"">> \o escapeAttribute(a.defaultValue) \o <<"\"">>>>
        ELSE <<>>) \o RenderAttributes(Tail(attrs))

buildAttributes(elementName) ==
  LET attributes == ElementAttributes(elementName)
      rendered == RenderAttributes(attributes)
  IN IF Len(attributes) = 0 THEN <<>>
     ELSE IF Len(rendered) > 0 THEN <<" ">> \o JoinStrings(rendered, <<" ">>) ELSE <<>>

RECURSIVE ReferencedChildren(_, _)
\* The first loop of inferRootElementName over the declared elements.
ReferencedChildren(g, names) ==
  IF names = <<>> THEN {}
  ELSE (IF g.models[Head(names)].type = "NONE" THEN {}
        ELSE {c \in Range(g.models[Head(names)].children) : IsDeclared(g, c)})
       \cup ReferencedChildren(g, Tail(names))

inferRootElementName(g) ==
  LET referencedChildren == ReferencedChildren(g, g.decls)
      candidates == {k \in 1..Len(g.decls) : g.decls[k] \notin referencedChildren}
  IN IF candidates # {}
     THEN g.decls[CHOOSE k \in candidates : \A m \in candidates : k <= m]
     ELSE g.decls[1]

\* '  '.repeat(depth)
Indent(depth) == [k \in 1..depth |-> "  "]

SelfClosingTag(name, depth) == Indent(depth) \o <<"<", name>> \o buildAttributes(name) \o <<"/>">>
TextTag(name, depth) ==
  Indent(depth) \o <<"<", name>> \o buildAttributes(name) \o <<">", "text", "</", name, ">">>
NestedTag(name, depth, renderedChildren) ==
  Indent(depth) \o <<"<", name>> \o buildAttributes(name) \o <<">", Newline>>
  \o JoinStrings(renderedChildren, <<Newline>>) \o <<Newline>>
  \o Indent(depth) \o <<"</", name, ">">>

\* Mutant of NextAncestors: the element is not added to the copy.
NextAncestorsNotAdded(ancestors, elementName) == ancestors

\* nextAncestors = new Set(ancestors); nextAncestors.add(elementName)
NextAncestors(ancestors, elementName) == ancestors \cup {elementName}

\* [...contentModel.getChildren()].filter(declared)
DeclaredChildren(g, elementName) ==
  LET Declared(c) == IsDeclared(g, c) IN SelectSeq(g.models[elementName].children, Declared)

\* Mutant of ImmediateResult: an ANY or MIXED element without declared
\* children is closed like any other childless element.
ImmediateResultNoTextForAny(g, elementName, ancestors, depth) ==
  LET contentModel == g.models[elementName] IN
  IF elementName \in ancestors THEN <<SelfClosingTag(elementName, depth)>>
  ELSE IF contentModel.type = "NONE" \/ contentModel.type = "EMPTY"
  THEN <<SelfClosingTag(elementName, depth)>>
  ELSE IF contentModel.type = "PCDATA" THEN <<TextTag(elementName, depth)>>
  ELSE IF Len(DeclaredChildren(g, elementName)) = 0
  THEN <<SelfClosingTag(elementName, depth)>>
  ELSE <<>>

\* The branches of buildElement that return without recursing: <<result>>,
\* or <<>> when the element is built from its children.
ImmediateResult(g, elementName, ancestors, depth) ==
  LET contentModel == g.models[elementName] IN
  IF elementName \in ancestors THEN <<SelfClosingTag(elementName, depth)>>
  ELSE IF contentModel.type = "NONE" \/ contentModel.type = "EMPTY"
  THEN <<SelfClosingTag(elementName, depth)>>
  ELSE IF contentModel.type = "PCDATA" THEN <<TextTag(elementName, depth)>>
  ELSE IF Len(DeclaredChildren(g, elementName)) = 0
  THEN (IF contentModel.type = "ANY" \/ contentModel.type = "MIXED"
        THEN <<TextTag(elementName, depth)>>
        ELSE <<SelfClosingTag(elementName, depth)>>)
  ELSE <<>>

\* One activation of buildElement on the call stack.
\*   st        "enter": called, nothing done yet; "children": in children.map
\*   children  the declared children being mapped, rendered the results so far
Frame(elementName, ancestors, depth) ==
  [elementName |-> elementName, ancestors |-> ancestors, depth |-> depth,
   st |-> "enter", children |-> <<>>, rendered |-> <<>>]

\* The deepest call stack the model follows.
MaxStack == Cardinality(DeclarableNames) + 2

\* ------------------------------------------------- one XML render request
RenderIdle ==
  /\ tree = <<>>
  /\ errorMessage = <<>>
  /\ textTree = <<>>
  /\ mermaidMarkup = <<>>
  /\ idVisits = <<>>
  /\ markupCalls = [count |-> 0, first |-> <<>>]
  /\ jsonObject = <<>>

DtdIdle ==
  /\ dtdRoot = <<>>
  /\ dtdStack = <<>>
  /\ dtdResult = <<>>
  /\ dtdSteps = 0

NoGrammar == [decls |-> <<>>, models |-> <<>>]

\* No editor, no panel: the render request is followed on its own.
HostIdle ==
  /\ documents = <<>>
  /\ activeEditor = <<>>
  /\ rootNode = <<>>
  /\ panel = <<>>

\* A message to the webview.
Message(type, saveId, message) == [type |-> type, saveId |-> saveId, message |-> message]

\* No message has been posted.
NoPost == Message("none", 0, "")

\* No panel has been created.
PanelIdle ==
  /\ panels = <<>>
  /\ currentPanel = <<>>
  /\ saves = <<>>
  /\ timers = {}
  /\ dialogs = EmptyBag
  /\ writes = EmptyBag
  /\ files = <<>>
  /\ lastPost = NoPost

\* A render request for an XML document.
Init ==
  /\ parsed \in ParseResults
  /\ RenderIdle
  /\ grammar = NoGrammar
  /\ dtdPc = "idle"
  /\ DtdIdle
  /\ PanelIdle
  /\ HostIdle

TypeErrorMessage == <<"Cannot convert undefined or null to object">>

ParseXml ==
  /\ tree = <<>>
  /\ errorMessage = <<>>
  /\ IF ConvertThrows(parsed)
     THEN errorMessage' = TypeErrorMessage /\ UNCHANGED tree
     ELSE tree' = <<parseXml(parsed)>> /\ UNCHANGED errorMessage
  /\ UNCHANGED <<parsed, textTree, mermaidMarkup, idVisits, markupCalls, jsonObject>>
  /\ UNCHANGED dtdVars
  /\ UNCHANGED hostVars
  /\ UNCHANGED panelVars

GenerateTextTree ==
  /\ tree # <<>>
  /\ textTree = <<>>
  /\ textTree' = <<generateTextTree(tree[1], <<>>, TRUE, TRUE)>>
  /\ UNCHANGED <<parsed, tree, errorMessage, mermaidMarkup, idVisits, markupCalls, jsonObject>>
  /\ UNCHANGED dtdVars
  /\ UNCHANGED hostVars
  /\ UNCHANGED panelVars

GenerateMermaidMarkup ==
  /\ tree # <<>>
  /\ markupCalls.count < MaxCalls
  /\ LET markup == generateMermaidMarkup(tree[1]) IN
     /\ mermaidMarkup' = <<markup>>
     /\ markupCalls' = [count |-> markupCalls.count + 1,
                        first |-> IF markupCalls.count = 0 THEN <<markup>> ELSE markupCalls.first]
  /\ idVisits' = <<[emit |-> EmitPass(tree[1]).visits, classify |-> ClassifyPass(tree[1]).visits]>>
  /\ UNCHANGED <<parsed, tree, errorMessage, textTree, jsonObject>>
  /\ UNCHANGED dtdVars
  /\ UNCHANGED hostVars
  /\ UNCHANGED panelVars

\* Mutant of XmlNodeToObject: the grouping loop takes the children out of
\* the node (node.children.shift()) instead of reading them.
XmlNodeToObjectConsumingTree ==
  /\ tree # <<>>
  /\ jsonObject = <<>>
  /\ jsonObject' = <<xmlNodeToObject(tree[1])>>
  /\ tree' = <<[tree[1] EXCEPT !.children = <<>>]>>
  /\ UNCHANGED <<parsed, errorMessage, textTree, mermaidMarkup, idVisits, markupCalls>>
  /\ UNCHANGED dtdVars
  /\ UNCHANGED hostVars
  /\ UNCHANGED panelVars

XmlNodeToObject ==
  /\ tree # <<>>
  /\ jsonObject = <<>>
  /\ jsonObject' = <<xmlNodeToObject(tree[1])>>
  /\ UNCHANGED <<parsed, tree, errorMessage, textTree, mermaidMarkup, idVisits, markupCalls>>
  /\ UNCHANGED dtdVars
  /\ UNCHANGED hostVars
  /\ UNCHANGED panelVars

Next ==
  \/ ParseXml
  \/ GenerateTextTree
  \/ GenerateMermaidMarkup
  \/ XmlNodeToObject

Spec == Init /\ [][Next]_vars

\* ------------------------- a render request on a parse result of another shape
\* Items that are not of the shape the parser reports: an element key whose
\* value is a string ({a: "x"}), an item without a content key ({} and
\* {":@": {...}}), and null.
StringValuedItem(tag, t) == [key |-> tag, vt |-> "string", text |-> t, kids |-> <<>>, attrs |-> <<>>]
KeylessItem(as) == [key |-> <<>>, vt |-> "none", text |-> <<>>, kids |-> <<>>, attrs |-> as]
NullItem == [key |-> <<>>, vt |-> "null", text |-> <<>>, kids |-> <<>>, attrs |-> <<>>]

BadItems ==
  {StringValuedItem(<<"a">>, <<"x">>), KeylessItem(<<>>), KeylessItem(IdAttribute), NullItem}
GoodItems ==
  {ElementItem(<<"a">>, <<>>, <<>>), ElementItem(<<"a">>, <<>>, <<TextItem(<<"x">>)>>)}
\* A bad item at the top level or among the children of an element.
ViolatingItems ==
  BadItems
  \cup {ElementItem(<<"a">>, <<>>, <<b>>) : b \in BadItems}
  \cup {ElementItem(<<"a">>, <<>>, <<TextItem(<<"x">>), b>>) : b \in BadItems}
MalformedResults ==
  {<<v>> : v \in ViolatingItems}
  \cup {<<v, g>> : v \in ViolatingItems, g \in GoodItems}
  \cup {<<g, v>> : v \in ViolatingItems, g \in GoodItems}

ShapeInit ==
  /\ parsed \in MalformedResults
  /\ RenderIdle
  /\ grammar = NoGrammar
  /\ dtdPc = "idle"
  /\ DtdIdle
  /\ PanelIdle
  /\ HostIdle

SpecShape == ShapeInit /\ [][Next]_vars

\* ------------------------------------------- generateXmlFromDtd, step by step
\* A render request for a DTD: generateXmlFromDtd has been called.
DtdInit ==
  /\ grammar \in Grammars
  /\ dtdPc = "start"
  /\ DtdIdle
  /\ PanelIdle
  /\ parsed = <<>>
  /\ RenderIdle
  /\ HostIdle

\* The activation on top of the stack returns result to its caller.
ReturnTo(stack, result) ==
  LET below == SubSeq(stack, 1, Len(stack) - 1) IN
  IF below = <<>> THEN <<>>
  ELSE [below EXCEPT ![Len(below)].rendered = Append(@, result)]

\* Mutant of HasNoDeclarations: a single declaration is refused too.
HasNoDeclarationsOrOne(g) == Len(g.decls) <= 1

\* grammar.getElementDeclMap().size === 0
HasNoDeclarations(g) == Len(g.decls) = 0

\* generateXmlFromDtd up to its call of buildElement.
GenerateXmlFromDtd ==
  /\ dtdPc = "start"
  /\ IF HasNoDeclarations(grammar)
     THEN /\ dtdPc' = "error"
          /\ UNCHANGED <<dtdRoot, dtdStack>>
     ELSE /\ dtdPc' = "building"
          /\ dtdRoot' = <<inferRootElementName(grammar)>>
          /\ dtdStack' = <<Frame(inferRootElementName(grammar), {}, 0)>>
  /\ dtdSteps' = dtdSteps + 1
  /\ UNCHANGED <<grammar, dtdResult>>
  /\ UNCHANGED renderVars
  /\ UNCHANGED hostVars
  /\ UNCHANGED panelVars

\* buildElement from its entry to its first return or to the start of
\* children.map.
BuildElementEnter ==
  /\ dtdPc = "building"
  /\ dtdStack # <<>>
  /\ LET top == dtdStack[Len(dtdStack)]
         now == ImmediateResult(grammar, top.elementName, top.ancestors, top.depth)
     IN /\ top.st = "enter"
        /\ IF now # <<>>
           THEN /\ dtdStack' = ReturnTo(dtdStack, now[1])
                /\ IF Len(dtdStack) = 1
                   THEN dtdResult' = now /\ dtdPc' = "done"
                   ELSE UNCHANGED <<dtdResult, dtdPc>>
           ELSE /\ dtdStack' = [dtdStack EXCEPT ![Len(dtdStack)] =
                      [top EXCEPT !.st = "children",
                                  !.children = DeclaredChildren(grammar, top.elementName)]]
                /\ UNCHANGED <<dtdResult, dtdPc>>
  /\ dtdSteps' = dtdSteps + 1
  /\ UNCHANGED <<grammar, dtdRoot>>
  /\ UNCHANGED renderVars
  /\ UNCHANGED hostVars
  /\ UNCHANGED panelVars

\* children.map calls buildElement for the next child.  A call that would
\* make the stack deeper than MaxStack ends the build with a RangeError
\* (call stack exhausted).
BuildElementRecurse ==
  /\ dtdPc = "building"
  /\ dtdStack # <<>>
  /\ LET top == dtdStack[Len(dtdStack)] IN
     /\ top.st = "children"
     /\ Len(top.rendered) < Len(top.children)
     /\ IF Len(dtdStack) < MaxStack
        THEN /\ dtdStack' = Append(dtdStack,
                  Frame(top.children[Len(top.rendered) + 1],
                        NextAncestors(top.ancestors, top.elementName), top.depth + 1))
             /\ UNCHANGED dtdPc
        ELSE /\ dtdPc' = "overflow"
             /\ UNCHANGED dtdStack
  /\ dtdSteps' = dtdSteps + 1
  /\ UNCHANGED <<grammar, dtdRoot, dtdResult>>
  /\ UNCHANGED renderVars
  /\ UNCHANGED hostVars
  /\ UNCHANGED panelVars

\* children.map is done: buildElement returns the nested tag.
BuildElementReturn ==
  /\ dtdPc = "building"
  /\ dtdStack # <<>>
  /\ LET top == dtdStack[Len(dtdStack)]
         result == NestedTag(top.elementName, top.depth, top.rendered)
     IN /\ top.st = "children"
        /\ Len(top.rendered) = Len(top.children)
        /\ dtdStack' = ReturnTo(dtdStack, result)
        /\ IF Len(dtdStack) = 1
           THEN dtdResult' = <<result>> /\ dtdPc' = "done"
           ELSE UNCHANGED <<dtdResult, dtdPc>>
  /\ dtdSteps' = dtdSteps + 1
  /\ UNCHANGED <<grammar, dtdRoot>>
  /\ UNCHANGED renderVars
  /\ UNCHANGED hostVars
  /\ UNCHANGED panelVars

DtdNext ==
  \/ GenerateXmlFromDtd
  \/ BuildElementEnter
  \/ BuildElementRecurse
  \/ BuildElementReturn

SpecDtd == DtdInit /\ [][DtdNext]_vars

\* ------------------------------------------- editor, sidebar and panel
\* A file name: what precedes the extension, and the extension (path.extname).
FileName(base, ext) == [base |-> base, ext |-> ext]

\* String.prototype.toLowerCase, on the extensions of this model.
toLowerCase(ext) == IF ext = ".XML" THEN ".xml" ELSE IF ext = ".DTD" THEN ".dtd" ELSE ext

isXmlFile(fileName) == toLowerCase(fileName.ext) = ".xml"
isXmlOrDtdFile(fileName) ==
  LET ext == toLowerCase(fileName.ext) IN ext = ".xml" \/ ext = ".dtd"
\* fileName.toLowerCase().endsWith('.dtd')
IsDtdFileName(fileName) == toLowerCase(fileName.ext) = ".dtd"

\* A document's text, by what the two parsers make of it:
\*   kind     "empty" (the text ''), "malformed" (the parser throws),
\*            "xml" (XMLParser.parse returns parsed),
\*            "dtd" (DTDParser.parseString returns grammar)
\* The empty text parses to no item and to a grammar without declarations.
EmptyText == [kind |-> "empty", parsed |-> <<>>, grammar |-> NoGrammar]
MalformedText == [kind |-> "malformed", parsed |-> <<>>, grammar |-> NoGrammar]
XmlText(p) == [kind |-> "xml", parsed |-> p, grammar |-> NoGrammar]
DtdText(g) == [kind |-> "dtd", parsed |-> <<>>, grammar |-> g]

\* <a/>, <a id="1"><a>x</a></a> and <a><constructor/></a>
HostParseResults ==
  {<<ElementItem(<<"a">>, <<>>, <<>>)>>,
   <<ElementItem(<<"a">>, IdAttribute, <<ElementItem(<<"a">>, <<>>, <<TextItem(<<"x">>)>>)>>)>>,
   <<ElementItem(<<"a">>, <<>>, <<ElementItem(<<"constructor">>, <<>>, <<>>)>>)>>}
\* A DTD without <!ELEMENT>, <!ELEMENT A EMPTY>, and the cycle A (B), B (A).
HostGrammars ==
  {NoGrammar,
   [decls |-> <<"A">>, models |-> [n \in {"A"} |-> [type |-> "EMPTY", children |-> <<>>]]],
   [decls |-> <<"A", "B">>,
    models |-> [n \in {"A", "B"} |->
                  [type |-> "ELEMENT", children |-> IF n = "A" THEN <<"B">> ELSE <<"A">>]]]}

XmlTexts == {EmptyText, MalformedText} \cup {XmlText(p) : p \in HostParseResults}
DtdTexts == {EmptyText, MalformedText} \cup {DtdText(g) : g \in HostGrammars}
\* The texts a document of that name goes through.
TextsOf(fileName) == IF IsDtdFileName(fileName) THEN DtdTexts ELSE XmlTexts

\* parseXml(xmlString) throws: the parser does, or convertOrderedToTree.
ParseThrows(text) == text.kind = "malformed" \/ ConvertThrows(text.parsed)

\* Mutant of refresh: after a failed parse the provider holds the tree of a
\* document without elements.
refreshShowingEmptyDocument(xmlContent) ==
  IF xmlContent # <<>> /\ xmlContent[1].kind # "empty"
  THEN (IF ParseThrows(xmlContent[1]) THEN <<parseXml(<<>>)>>
        ELSE <<parseXml(xmlContent[1].parsed)>>)
  ELSE <<>>

\* XmlTreeDataProvider.refresh: the new _rootNode.  xmlContent is <<>> for
\* undefined; the empty string is falsy.
refresh(xmlContent) ==
  IF xmlContent # <<>> /\ xmlContent[1].kind # "empty"
  THEN (IF ParseThrows(xmlContent[1]) THEN <<>> ELSE <<parseXml(xmlContent[1].parsed)>>)
  ELSE <<>>

\* updateSidebar with editor the active editor.
updateSidebar(editor, docs) ==
  IF editor # <<>> /\ isXmlFile(docs[editor[1]].fileName)
  THEN refresh(<<docs[editor[1]].text>>)
  ELSE refresh(<<>>)

RECURSIVE buildElement(_, _, _, _)
\* buildElement as one call (the step-by-step actions follow the same code).
buildElement(g, elementName, ancestors, depth) ==
  LET now == ImmediateResult(g, elementName, ancestors, depth) IN
  IF now # <<>> THEN now[1]
  ELSE LET children == DeclaredChildren(g, elementName) IN
       NestedTag(elementName, depth,
                 [i \in 1..Len(children) |->
                    buildElement(g, children[i], NextAncestors(ancestors, elementName), depth + 1)])

ParserMessage == <<"parser diagnostic">>
NoDeclarationsMessage == <<"No <!ELEMENT ...> declarations found in DTD.">>
NotAFunctionMessage == <<"childGroups[child.tagName].push is not a function">>

\* generateXmlFromDtd as one call: the skeleton, or the error thrown.
generateXmlFromDtd(text) ==
  IF text.kind = "malformed" THEN [ok |-> FALSE, value |-> <<>>, message |-> ParserMessage]
  ELSE IF HasNoDeclarations(text.grammar)
  THEN [ok |-> FALSE, value |-> <<>>, message |-> NoDeclarationsMessage]
  ELSE [ok |-> TRUE, message |-> <<>>,
        value |-> buildElement(text.grammar, inferRootElementName(text.grammar), {}, 0)]

\* webview.html: the page and what it is filled with.
Html(page, textOutline, markup, object, xmlSkeleton, message) ==
  [page |-> page, textTree |-> textOutline, mermaidMarkup |-> markup, jsonObject |-> object,
   xmlSkeleton |-> xmlSkeleton, message |-> message]
getHtml(textOutline, markup, object) == Html("tree", textOutline, markup, <<object>>, <<>>, <<>>)
getDtdHtml(xmlSkeleton) == Html("dtd", <<>>, <<>>, <<>>, xmlSkeleton, <<>>)
getErrorHtml(message) == Html("error", <<>>, <<>>, <<>>, <<>>, message)

\* XmlTreePanel._update: the panel's title and html afterwards.
update(xmlContent, fileName) ==
  [title |-> fileName,
   html |->
     IF IsDtdFileName(fileName)
     THEN LET xmlSkeleton == generateXmlFromDtd(xmlContent) IN
          IF xmlSkeleton.ok THEN getDtdHtml(xmlSkeleton.value)
          ELSE getErrorHtml(<<"DTD Parse Error: ">> \o xmlSkeleton.message)
     ELSE IF xmlContent.kind = "malformed" THEN getErrorHtml(ParserMessage)
     ELSE IF ConvertThrows(xmlContent.parsed) THEN getErrorHtml(TypeErrorMessage)
     ELSE LET root == parseXml(xmlContent.parsed)
              object == xmlNodeToObject(root)
          IN IF object.t = "throw" THEN getErrorHtml(NotAFunctionMessage)
             ELSE getHtml(generateTextTree(root, <<>>, TRUE, TRUE),
                          generateMermaidMarkup(root), object)]

Docs == {"d1", "d2"}
\* d1 is a.xml; d2 is b.XML, c.dtd or d.txt.
DocumentSets ==
  {[d \in Docs |-> [fileName |-> IF d = "d1" THEN FileName("a", ".xml") ELSE f2,
                    text |-> IF d = "d1" THEN t1 ELSE t2]] :
     t1 \in XmlTexts,
     f2 \in {FileName("b", ".XML"), FileName("c", ".dtd"), FileName("d", ".txt")},
     t2 \in XmlTexts \cup DtdTexts}
Editors == {<<>>} \cup {<<d>> : d \in Docs}

\* The state activate() leaves: the provider has been refreshed once.
HostInit ==
  /\ documents \in {ds \in DocumentSets : \A d \in Docs : ds[d].text \in TextsOf(ds[d].fileName)}
  /\ activeEditor \in Editors
  /\ rootNode = updateSidebar(activeEditor, documents)
  /\ panel = <<>>
  /\ parsed = <<>>
  /\ RenderIdle
  /\ grammar = NoGrammar
  /\ dtdPc = "idle"
  /\ DtdIdle
  /\ PanelIdle

\* onDidChangeActiveTextEditor
ChangeActiveTextEditor ==
  /\ \E e \in Editors :
       /\ e # activeEditor
       /\ activeEditor' = e
       /\ rootNode' = updateSidebar(e, documents)
  /\ UNCHANGED <<documents, panel>>
  /\ UNCHANGED renderVars
  /\ UNCHANGED dtdVars
  /\ UNCHANGED panelVars

\* An edit of document d, and onDidChangeTextDocument for it.
ChangeTextDocument ==
  /\ \E d \in Docs, t \in XmlTexts \cup DtdTexts :
       /\ t \in TextsOf(documents[d].fileName)
       /\ t # documents[d].text
       /\ documents' = [documents EXCEPT ![d].text = t]
       /\ rootNode' = IF activeEditor # <<>> /\ d = activeEditor[1] /\ isXmlFile(documents[d].fileName)
                      THEN refresh(<<t>>)
                      ELSE rootNode
  /\ UNCHANGED <<activeEditor, panel>>
  /\ UNCHANGED renderVars
  /\ UNCHANGED dtdVars
  /\ UNCHANGED panelVars

\* onDidSaveTextDocument for document d.
SaveTextDocument ==
  /\ \E d \in Docs :
       rootNode' = IF isXmlFile(documents[d].fileName)
                   THEN updateSidebar(activeEditor, documents)
                   ELSE rootNode
  /\ UNCHANGED <<documents, activeEditor, panel>>
  /\ UNCHANGED renderVars
  /\ UNCHANGED dtdVars
  /\ UNCHANGED panelVars

\* The command xmlTreeViewer.refreshSidebar.
RefreshSidebarCommand ==
  /\ documents # <<>>
  /\ rootNode' = updateSidebar(activeEditor, documents)
  /\ UNCHANGED <<documents, activeEditor, panel>>
  /\ UNCHANGED renderVars
  /\ UNCHANGED dtdVars
  /\ UNCHANGED panelVars

\* The command xmlTreeViewer.openTreeView: a warning without an editor on
\* an XML or DTD file, else createOrShow, which updates the current panel
\* or makes one.
OpenTreeViewCommand ==
  /\ documents # <<>>
  /\ IF activeEditor # <<>> /\ isXmlOrDtdFile(documents[activeEditor[1]].fileName)
     THEN panel' = <<update(documents[activeEditor[1]].text, documents[activeEditor[1]].fileName)>>
     ELSE UNCHANGED panel
  /\ UNCHANGED <<documents, activeEditor, rootNode>>
  /\ UNCHANGED renderVars
  /\ UNCHANGED dtdVars
  /\ UNCHANGED panelVars

\* The panel is closed: dispose().
DisposePanel ==
  /\ panel # <<>>
  /\ panel' = <<>>
  /\ UNCHANGED <<documents, activeEditor, rootNode>>
  /\ UNCHANGED renderVars
  /\ UNCHANGED dtdVars
  /\ UNCHANGED panelVars

HostNext ==
  \/ ChangeActiveTextEditor
  \/ ChangeTextDocument
  \/ SaveTextDocument
  \/ RefreshSidebarCommand
  \/ OpenTreeViewCommand
  \/ DisposePanel

SpecHost == HostInit /\ [][HostNext]_vars

\* ------------------------------------------- the panel and its image saves
\* Bounds: how many panels are created, how many save sessions are opened,
\* the largest chunk count a message announces, and how many save dialogs
\* and file writes are awaited at a time.
MaxPanels == 2
MaxSaves == 1
MaxTotal == 2
MaxDialogs == 1
MaxWrites == 2

\* A number of a webview message, in halves (h = 3 is 1.5), or NaN.
Num(h) == [finite |-> TRUE, h |-> h]
NaN == [finite |-> FALSE, h |-> 0]

\* msg.index: NaN, -1, 0, 0.5, 1, ..., MaxTotal.  msg.total: NaN, 0, 1, ...,
\* MaxTotal.  msg.chunk: a piece of base64 text that starts with the
\* PNG signature ("P") or not ("x").
IndexValues == {NaN, Num(-2), Num(1)} \cup {Num(2 * k) : k \in 0..MaxTotal}
TotalValues == {NaN, Num(0)} \cup {Num(2 * k) : k \in 1..MaxTotal}
ChunkValues == {"P", "x"}

\* The property keys save.chunks can get, and the value of a key never set.
ArrayKeys == {h \in 0..(2 * MaxTotal - 1) : Num(h) \in IndexValues}
Undefined == "undefined"

\* !Number.isFinite(index) || !Number.isFinite(total) || total <= 0 ||
\* index < 0 || index >= total
IsInvalidChunk(index, total) ==
  \/ ~index.finite
  \/ ~total.finite
  \/ total.h <= 0
  \/ index.h < 0
  \/ index.h >= total.h

\* fileName.replace(/\.(xml|dtd)$/i, '-diagram.png')
DefaultName(fileName) ==
  IF toLowerCase(fileName.ext) \in {".xml", ".dtd"}
  THEN FileName(fileName.base, "-diagram.png")
  ELSE fileName

\* What createOrShow is called with: the active document's text and name.
PanelRequests ==
  {[fileName |-> FileName("a", ".xml"), text |-> XmlText(p)] :
     p \in {<<ElementItem(<<"a">>, IdAttribute, <<TextItem(<<"x">>)>>)>>}}
  \cup {[fileName |-> FileName("b", ".DTD"),
         text |-> DtdText([decls |-> <<"A">>, models |-> [n \in {"A"} |-> [type |-> "EMPTY", children |-> <<>>]]])]}

\* What _update(req.text, req.fileName) sets the title and the html to.
Shown == [req \in PanelRequests |-> update(req.text, req.fileName)]

\* An XmlTreePanel and its WebviewPanel.
\*   fileName           the constructor's parameter, which the message
\*                      handler's closure keeps
\*   title, html        _panel.title and _panel.webview.html
\*   disposed           the WebviewPanel is closed and dispose() has run
\*   pendingImageSaves  the keys of _pendingImageSaves
\* _update(xmlContent, fileName) on a panel.
Updated(xmlTreePanel, req) ==
  [xmlTreePanel EXCEPT !.title = Shown[req].title, !.html = Shown[req].html]

\* new XmlTreePanel(panel, xmlContent, fileName)
NewPanel(req) ==
  Updated([fileName |-> req.fileName, title |-> req.fileName, html |-> getErrorHtml(<<>>),
           disposed |-> FALSE, pendingImageSaves |-> {}], req)

\* Mutant of createOrShow: a new panel is created although one is live.
createOrShowAlwaysNew(ps, cp, req) ==
  [panels |-> Append(ps, NewPanel(req)), currentPanel |-> <<Len(ps) + 1>>]

\* XmlTreePanel.createOrShow: the panels and currentPanel afterwards.
createOrShow(ps, cp, req) ==
  IF cp # <<>>
  THEN [panels |-> [ps EXCEPT ![cp[1]] = Updated(@, req)], currentPanel |-> cp]
  ELSE [panels |-> Append(ps, NewPanel(req)), currentPanel |-> <<Len(ps) + 1>>]

\* A PendingImageSave object (the target uri is the session's own file).
\*   panel     the panel whose handler created it
\*   total     <<>> while undefined
\*   chunks    the array: what each key holds
\*   timeout   the handle armTimeout returned last
NewSave(p, id) ==
  [panel |-> p, total |-> <<>>, received |-> 0,
   chunks |-> [h \in ArrayKeys |-> Undefined], timeout |-> id]

\* The timers setTimeout has armed and that neither fired nor were cleared:
\* [saveId, id], id the handle.
TimerIds(ts, saveId) == {t.id : t \in {u \in ts : u.saveId = saveId}}

\* armTimeout(saveId): the new handle and the armed timers afterwards.
armTimeout(ts, saveId) ==
  LET id == CHOOSE i \in 1..(Cardinality(ts) + 1) :
              i \notin TimerIds(ts, saveId) /\ \A j \in 1..(i - 1) : j \in TimerIds(ts, saveId)
  IN [id |-> id, timers |-> ts \cup {[saveId |-> saveId, id |-> id]}]

clearTimeout(ts, saveId, id) == ts \ {[saveId |-> saveId, id |-> id]}

\* Mutant of KeepAlive: the running timer is not cleared.
KeepAliveNotCleared(ts, saveId, save) == armTimeout(ts, saveId)

\* if (save.timeout) clearTimeout(save.timeout); save.timeout = armTimeout(saveId)
KeepAlive(ts, saveId, save) == armTimeout(clearTimeout(ts, saveId, save.timeout), saveId)

\* save.chunks.join(''): the elements 0 .. total-1, a hole giving ''.
JoinChunks(save) ==
  LET present == {k \in 0..((save.total[1] \div 2) - 1) : save.chunks[2 * k] # Undefined}
      Nth(j) == CHOOSE k \in present : Cardinality({m \in present : m < k}) = j - 1
  IN [j \in 1..Cardinality(present) |-> save.chunks[2 * Nth(j)]]

\* bytes.length >= 8 and the first eight bytes are the PNG signature.
IsPng(base64) == base64 # <<>> /\ base64[1] = "P"

\* The messages of ExtensionToWebviewMessage.
SavedMessage == Message("saveMermaidImageSaved", 0, "")
CancelledMessage == Message("saveMermaidImageCancelled", 0, "")
SessionMessage(saveId) == Message("saveMermaidImageSession", saveId, "")
ErrorMessage(message) == Message("saveMermaidImageError", 0, message)

\* _panel.webview.postMessage(message) of panel p: a disposed panel's webview
\* takes no message.  lastPost is the last message a webview took.
Post(p, message) ==
  IF panels[p].disposed THEN lastPost
  ELSE message

PanelInit ==
  /\ PanelIdle
  /\ parsed = <<>>
  /\ RenderIdle
  /\ grammar = NoGrammar
  /\ dtdPc = "idle"
  /\ DtdIdle
  /\ HostIdle

\* An object no map, no waiting handler and no timer refers to is garbage:
\* its contents are dropped.
Collect(svs, ps, ws, ts) ==
  [s \in 1..Len(svs) |->
     IF \/ \E p \in 1..Len(ps) : s \in ps[p].pendingImageSaves
        \/ \E w \in BagToSet(ws) : w.saveId = s
        \/ \E t \in ts : t.saveId = s
     THEN svs[s]
     ELSE NewSave(0, 0)]

\* XmlTreePanel.createOrShow(extensionUri, req.text, req.fileName) is called.
CreateOrShowWith(req) ==
    LET after == createOrShow(panels, currentPanel, req) IN
    /\ Len(after.panels) <= MaxPanels
    /\ panels' = after.panels
    /\ currentPanel' = after.currentPanel
    /\ UNCHANGED <<saves, timers, dialogs, writes, files, lastPost>>
    /\ UNCHANGED renderVars
    /\ UNCHANGED dtdVars
    /\ UNCHANGED hostVars

\* The openTreeView command calls XmlTreePanel.createOrShow.
CreateOrShow == \E req \in PanelRequests : CreateOrShowWith(req)

\* XmlTreePanel.dispose on panel p: the timers and the panels afterwards.
dispose(ps, ts, svs, p) ==
  [timers |-> ts \ {[saveId |-> s, id |-> svs[s].timeout] : s \in ps[p].pendingImageSaves},
   panels |-> [ps EXCEPT ![p].pendingImageSaves = {}, ![p].disposed = TRUE]]

\* The user closes the panel: onDidDispose calls dispose().
ClosePanel ==
  \E p \in 1..Len(panels) :
    /\ ~panels[p].disposed
    /\ currentPanel' = <<>>
    /\ panels' = dispose(panels, timers, saves, p).panels
    /\ timers' = dispose(panels, timers, saves, p).timers
    /\ saves' = Collect(saves, panels', writes, timers')
    /\ UNCHANGED <<dialogs, writes, files, lastPost>>
    /\ UNCHANGED renderVars
    /\ UNCHANGED dtdVars
    /\ UNCHANGED hostVars

\* Message requestSaveMermaidImage (legacy = FALSE) or saveMermaidImage with
\* a data URL (legacy = TRUE): up to `await showSaveDialog`.
RequestSaveMermaidImage ==
  \E p \in 1..Len(panels), legacy \in BOOLEAN :
    /\ ~panels[p].disposed
    /\ BagCardinality(dialogs) < MaxDialogs
    /\ dialogs' = dialogs (+) SetToBag({[panel |-> p, legacy |-> legacy,
                                          defaultName |-> DefaultName(panels[p].fileName)]})
    /\ UNCHANGED <<panels, currentPanel, saves, timers, writes, files, lastPost>>
    /\ UNCHANGED renderVars
    /\ UNCHANGED dtdVars
    /\ UNCHANGED hostVars

\* showSaveDialog returns (picked: a uri; else undefined) and the handler
\* runs on.  The legacy flow writes the file without a session.
SaveDialogReturns ==
  \E d \in BagToSet(dialogs), picked \in BOOLEAN :
    LET p == d.panel
        saveId == Len(saves) + 1
        armed == armTimeout(timers, saveId)
    IN /\ dialogs' = dialogs (-) SetToBag({d})
       /\ IF d.legacy
          THEN UNCHANGED <<panels, saves, timers, lastPost>>
          ELSE IF ~picked
          THEN /\ lastPost' = Post(p, CancelledMessage)
               /\ UNCHANGED <<panels, saves, timers>>
          ELSE /\ Len(saves) < MaxSaves
               /\ saves' = Append(saves, NewSave(p, armed.id))
               /\ timers' = armed.timers
               /\ panels' = [panels EXCEPT ![p].pendingImageSaves = @ \cup {saveId}]
               /\ lastPost' = Post(p, SessionMessage(saveId))
       /\ UNCHANGED <<currentPanel, writes, files>>
       /\ UNCHANGED renderVars
       /\ UNCHANGED dtdVars
       /\ UNCHANGED hostVars

\* Message saveMermaidImageAbort, for a saveId that has been handed out.
SaveMermaidImageAbort ==
  \E p \in 1..Len(panels), saveId \in 1..Len(saves) :
    /\ ~panels[p].disposed
    /\ IF saveId \in panels[p].pendingImageSaves
       THEN /\ timers' = clearTimeout(timers, saveId, saves[saveId].timeout)
            /\ panels' = [panels EXCEPT ![p].pendingImageSaves = @ \ {saveId}]
            /\ saves' = Collect(saves, panels', writes, timers')
       ELSE UNCHANGED <<panels, timers, saves>>
    /\ UNCHANGED <<currentPanel, dialogs, writes, files, lastPost>>
    /\ UNCHANGED renderVars
    /\ UNCHANGED dtdVars
    /\ UNCHANGED hostVars

\* The handler of saveMermaidImageChunk on a pending session, up to its
\* return or to `await writeFile`: what it leaves behind.
\*   pending  whether the session is still in the map
\*   post     the messages posted (none or one)
\*   write    the bytes handed to writeFile (none or one call)
ChunkOutcome(save, ts, pending, post, write) ==
  [save |-> save, timers |-> ts, pending |-> pending, post |-> post, write |-> write]

saveMermaidImageChunk(ts, saveId, save, index, total, chunk) ==
  LET alive == KeepAlive(ts, saveId, save)
      rearmed == [save EXCEPT !.timeout = alive.id]
      cleared == clearTimeout(alive.timers, saveId, alive.id)
  IN
  IF IsInvalidChunk(index, total)
  THEN ChunkOutcome(rearmed, cleared, FALSE,
                    <<ErrorMessage("Invalid image data received.")>>, <<>>)
  ELSE IF save.total # <<>> /\ save.total[1] # total.h
  THEN ChunkOutcome(rearmed, cleared, FALSE,
                    <<ErrorMessage("Image transfer interrupted. Try again.")>>, <<>>)
  ELSE
    LET stored == [rearmed EXCEPT
                     !.total = <<total.h>>,
                     !.received = IF save.chunks[index.h] = Undefined THEN @ + 1 ELSE @,
                     !.chunks[index.h] = chunk]
    IN
    IF 2 * stored.received # stored.total[1]
    THEN ChunkOutcome(stored, alive.timers, TRUE, <<>>, <<>>)
    ELSE IF ~IsPng(JoinChunks(stored))
    THEN \* throw new Error('Corrupted PNG data'); catch; finally
         ChunkOutcome(stored, cleared, FALSE, <<ErrorMessage("Corrupted PNG data")>>, <<>>)
    ELSE ChunkOutcome(stored, alive.timers, TRUE, <<>>, <<JoinChunks(stored)>>)

\* Panel p handles {type: 'saveMermaidImageChunk', saveId, index, total, chunk}.
ChunkMessage(p, saveId, index, total, chunk) ==
    /\ ~panels[p].disposed
    /\ IF saveId \notin panels[p].pendingImageSaves
       THEN /\ lastPost' = Post(p, ErrorMessage("No active save session. Try again."))
            /\ UNCHANGED <<panels, saves, timers, writes, files>>
       ELSE LET out == saveMermaidImageChunk(timers, saveId, saves[saveId], index, total, chunk) IN
            /\ out.write # <<>> => BagCardinality(writes) < MaxWrites
            /\ timers' = out.timers
            /\ panels' = IF out.pending THEN panels
                         ELSE [panels EXCEPT ![p].pendingImageSaves = @ \ {saveId}]
            /\ writes' = IF out.write = <<>> THEN writes
                         ELSE writes (+) SetToBag({[saveId |-> saveId, panel |-> p]})
            /\ files' = IF out.write = <<>> THEN files
                        ELSE Append(files, [saveId |-> saveId, bytes |-> out.write[1]])
            /\ lastPost' = IF out.post = <<>> THEN lastPost ELSE Post(p, out.post[1])
            /\ saves' = Collect([saves EXCEPT ![saveId] = out.save], panels', writes', timers')
    /\ UNCHANGED <<currentPanel, dialogs>>
    /\ UNCHANGED renderVars
    /\ UNCHANGED dtdVars
    /\ UNCHANGED hostVars

\* Message saveMermaidImageChunk, for a saveId that has been handed out.
SaveMermaidImageChunk ==
  \E p \in 1..Len(panels), saveId \in 1..Len(saves),
     index \in IndexValues, total \in TotalValues, chunk \in ChunkValues :
    ChunkMessage(p, saveId, index, total, chunk)

\* `await writeFile` of a chunk handler returns (ok) or throws: the rest of
\* the try, the catch, and the finally.
WriteFileReturns ==
  \E w \in BagToSet(writes), ok \in BOOLEAN :
    LET saveId == w.saveId
        p == w.panel
    IN /\ writes' = writes (-) SetToBag({w})
       /\ lastPost' = Post(p, IF ok THEN SavedMessage ELSE ErrorMessage("Failed to save image."))
       /\ timers' = clearTimeout(timers, saveId, saves[saveId].timeout)
       /\ panels' = [panels EXCEPT ![p].pendingImageSaves = @ \ {saveId}]
       /\ saves' = Collect(saves, panels', writes', timers')
       /\ UNCHANGED <<currentPanel, dialogs, files>>
       /\ UNCHANGED renderVars
       /\ UNCHANGED dtdVars
       /\ UNCHANGED hostVars

\* A timer armed by armTimeout fires.
TimeoutFires(saveId) ==
  \E t \in timers :
    LET p == saves[saveId].panel IN
    /\ t.saveId = saveId
    /\ IF saveId \in panels[p].pendingImageSaves
       THEN /\ panels' = [panels EXCEPT ![p].pendingImageSaves = @ \ {saveId}]
            /\ timers' = clearTimeout(timers \ {t}, saveId, saves[saveId].timeout)
            /\ lastPost' = Post(p, ErrorMessage("Image export timed out. Try again."))
       ELSE /\ timers' = timers \ {t}
            /\ UNCHANGED <<panels, lastPost>>
    /\ saves' = Collect(saves, panels', writes, timers')
    /\ UNCHANGED <<currentPanel, dialogs, writes, files>>
    /\ UNCHANGED renderVars
    /\ UNCHANGED dtdVars
    /\ UNCHANGED hostVars

Timeout == \E saveId \in 1..MaxSaves : TimeoutFires(saveId)

\* The life of the panels: created, shown again, asked for a save dialog,
\* closed; the sessions the dialogs open are left to time out.
PanelNext ==
  \/ CreateOrShow
  \/ ClosePanel
  \/ RequestSaveMermaidImage
  \/ SaveDialogReturns
  \/ Timeout

SpecPanel == PanelInit /\ [][PanelNext]_vars

\* A save session has just been opened on the first panel: the state after
\* createOrShow, requestSaveMermaidImage and a save dialog that returned a
\* uri.
SaveInit ==
  /\ \E req \in PanelRequests :
       panels = <<[NewPanel(req) EXCEPT !.pendingImageSaves = {1}]>>
  /\ currentPanel = <<1>>
  /\ saves = <<NewSave(1, armTimeout({}, 1).id)>>
  /\ timers = armTimeout({}, 1).timers
  /\ dialogs = EmptyBag
  /\ writes = EmptyBag
  /\ files = <<>>
  /\ lastPost = SessionMessage(1)
  /\ parsed = <<>>
  /\ RenderIdle
  /\ grammar = NoGrammar
  /\ dtdPc = "idle"
  /\ DtdIdle
  /\ HostIdle

\* The transfer of one image: chunk and abort messages, the file write, the
\* timeout, and the user closing the panel.
SaveNext ==
  \/ SaveMermaidImageChunk
  \/ SaveMermaidImageAbort
  \/ WriteFileReturns
  \/ Timeout
  \/ ClosePanel

SpecSave == SaveInit /\ [][SaveNext]_vars

\* Timers fire and file writes return.
SpecSaveFair ==
  /\ SaveInit
  /\ [][SaveNext]_vars
  /\ \A saveId \in 1..MaxSaves : WF_vars(TimeoutFires(saveId))
  /\ WF_vars(WriteFileReturns)

\* ================================================================ claims
\* What the source document says, read off the parse result.
RECURSIVE ElementCount(_)
\* Number of elements of the document.
ElementCount(f) ==
  IF f = <<>> THEN 0
  ELSE (IF IsElementItem(Head(f)) THEN 1 + ElementCount(Head(f).kids) ELSE 0) + ElementCount(Tail(f))

ElementItems(f) == SelectSeq(f, IsElementItem)

RECURSIVE ElemChildCounts(_)
\* Per element, in document order: the number of its child elements.
ElemChildCounts(f) ==
  IF f = <<>> THEN <<>>
  ELSE (IF IsElementItem(Head(f))
        THEN <<Len(ElementItems(Head(f).kids))>> \o ElemChildCounts(Head(f).kids)
        ELSE <<>>) \o ElemChildCounts(Tail(f))

RECURSIVE SourceSkeleton(_)
\* The element structure of the document: tags and nesting, in document order.
SourceSkeleton(f) ==
  IF f = <<>> THEN <<>>
  ELSE (IF IsElementItem(Head(f))
        THEN <<[tag |-> Head(f).key, kids |-> SourceSkeleton(Head(f).kids)]>>
        ELSE <<>>) \o SourceSkeleton(Tail(f))

\* The nodes that stand for the document's top level: the root, or the
\* children of the synthetic wrapper.
TopNodes(root) == IF root.tagName = DocumentTag THEN root.children ELSE <<root>>

RECURSIVE ChildCounts(_)
ChildCounts(ns) ==
  IF ns = <<>> THEN <<>>
  ELSE <<Len(Head(ns).children)>> \o ChildCounts(Head(ns).children) \o ChildCounts(Tail(ns))

RECURSIVE TreeSkeleton(_)
TreeSkeleton(ns) ==
  IF ns = <<>> THEN <<>>
  ELSE <<[tag |-> Head(ns).tagName, kids |-> TreeSkeleton(Head(ns).children)]>>
       \o TreeSkeleton(Tail(ns))

RECURSIVE ForestTags(_)
ForestTags(ns) ==
  IF ns = <<>> THEN {}
  ELSE {Head(ns).tagName} \cup ForestTags(Head(ns).children) \cup ForestTags(Tail(ns))

\* C1: a document with N elements normalises to exactly N nodes (the wrapper
\* not counted), every node has as many children as its source element has
\* child elements, and no non-element item (declaration, text, comment,
\* comment) becomes a node.
C1_RoundTripShape ==
  tree # <<>> =>
    LET tops == TopNodes(tree[1]) IN
    /\ ForestNodeCount(tops) = ElementCount(parsed)
    /\ ChildCounts(tops) = ElemChildCounts(parsed)
    /\ ForestTags(tops) \subseteq TagNames

\* C2: with exactly one top-level element the root is that element's node
\* itself; with two or more the root is the "(document)" wrapper with empty
\* attributes and text and those top-level nodes as children, in order.
C2_RootSelection ==
  tree # <<>> =>
    LET tops == ElementItems(parsed)
        root == tree[1]
    IN /\ Len(tops) = 1 => root = convertOrderedToTree(tops)[1]
       /\ Len(tops) >= 2 =>
            /\ root.tagName = DocumentTag
            /\ root.attributes = <<>>
            /\ root.textContent = <<>>
            /\ root.children = convertOrderedToTree(tops)

\* C3: at every depth the children of a node are exactly the child elements
\* of its source element, in document order: none reordered, dropped,
\* duplicated or added.
C3_OrderPreserved ==
  tree # <<>> => TreeSkeleton(TopNodes(tree[1])) = SourceSkeleton(parsed)

\* ------------------------------------------------------------- C4, C5
IsDeclLine(l) == l.kind = "decl"
DeclLines(lines) == SelectSeq(lines, IsDeclLine)

\* The identifiers of the class statement for cls (none: no such statement).
ClassIds(lines, cls) ==
  LET hits == {i \in 1..Len(lines) : lines[i].kind = "class" /\ lines[i].cls = cls}
  IN IF hits = {} THEN <<>> ELSE lines[CHOOSE i \in hits : TRUE].ids

\* The path of the node a pass examined under identifier id.
VisitedAs(visits, id) == {visits[i].path : i \in {j \in 1..Len(visits) : visits[j].id = id}}

\* C4: both passes of generateMermaidMarkup number the nodes alike: the node
\* declared as Nk is the k-th node in pre-order (N0 the root, no gaps, no
\* repeats), and an identifier in a class statement denotes the node the
\* classification pass examined under that number.
C4_IdentifierAgreement ==
  mermaidMarkup # <<>> =>
    LET root == tree[1]
        paths == PreorderPaths(root, <<>>)
        decls == DeclLines(mermaidMarkup[1])
        emit == idVisits[1].emit
        classify == idVisits[1].classify
    IN /\ Len(decls) = Len(paths)
       /\ Len(emit) = Len(paths)
       /\ Len(classify) = Len(paths)
       /\ \A k \in 1..Len(paths) :
            /\ emit[k] = [id |-> k - 1, path |-> paths[k]]
            /\ classify[k] = emit[k]
            /\ decls[k].id = k - 1
            /\ decls[k].label = buildLabel(NodeAt(root, paths[k]))
            /\ decls[k].shape = NodeShape(NodeAt(root, paths[k]))
       /\ \A cls \in {"root", "branch", "leaf"} :
            \A id \in Range(ClassIds(mermaidMarkup[1], cls)) :
              VisitedAs(classify, id) = VisitedAs(emit, id) /\ VisitedAs(emit, id) # {}

\* C4 witness: markup was generated for a tree in which pre-order differs
\* from level order (a first child with a child of its own, then a sibling).
C4_Witness ==
  /\ mermaidMarkup # <<>>
  /\ Len(tree[1].children) >= 2
  /\ tree[1].children[1].children # <<>>

\* Nk for the node at path p.
IdOfPath(root, p) ==
  LET paths == PreorderPaths(root, <<>>)
  IN (CHOOSE k \in 1..Len(paths) : paths[k] = p) - 1

NonRootPaths(root) == Range(PreorderPaths(root, <<>>)) \ {<<>>}

RootStyled(lines) ==
  /\ ClassIds(lines, "root") = <<0>>
  /\ 0 \notin Range(ClassIds(lines, "branch"))
  /\ 0 \notin Range(ClassIds(lines, "leaf"))

\* C5 as stated: N0 is tagged root and nothing else; a non-root node with
\* children is tagged branch; a non-root leaf (no children, text) is tagged
\* leaf; a non-root empty node (no children, no text) is in neither list.
C5_EmptyNodesUnstyled ==
  mermaidMarkup # <<>> =>
    LET root == tree[1]
        lines == mermaidMarkup[1]
        branch == Range(ClassIds(lines, "branch"))
        leaf == Range(ClassIds(lines, "leaf"))
    IN /\ RootStyled(lines)
       /\ \A p \in NonRootPaths(root) :
            LET n == NodeAt(root, p)
                id == IdOfPath(root, p)
            IN /\ IsBranch(n) => id \in branch
               /\ IsLeaf(n) => id \in leaf
               /\ IsEmpty(n) => id \notin branch /\ id \notin leaf

\* C5 amended: N0 is tagged root and nothing else; a non-root node with
\* children is tagged branch and not leaf; every non-root node without
\* children, with text or without, is tagged leaf and not branch.
C5_StyleClasses ==
  mermaidMarkup # <<>> =>
    LET root == tree[1]
        lines == mermaidMarkup[1]
        branch == Range(ClassIds(lines, "branch"))
        leaf == Range(ClassIds(lines, "leaf"))
    IN /\ RootStyled(lines)
       /\ \A p \in NonRootPaths(root) :
            LET n == NodeAt(root, p)
                id == IdOfPath(root, p)
            IN /\ IsBranch(n) => id \in branch /\ id \notin leaf
               /\ ~IsBranch(n) => id \in leaf /\ id \notin branch

\* C5 witness: markup was generated for a tree with a non-root empty node, a
\* non-root leaf and a root that has children.
C5_Witness ==
  /\ mermaidMarkup # <<>>
  /\ \E p \in NonRootPaths(tree[1]) : IsEmpty(NodeAt(tree[1], p))
  /\ \E p \in NonRootPaths(tree[1]) : IsLeaf(NodeAt(tree[1], p))

\* ----------------------------------------------------------------- C8
RECURSIVE SplitLines(_, _)
\* The newline-terminated lines of a string (cur: the line being read).
SplitLines(s, cur) ==
  IF s = <<>> THEN <<>>
  ELSE IF Head(s) = Newline THEN <<cur>> \o SplitLines(Tail(s), <<>>)
  ELSE SplitLines(Tail(s), Append(cur, Head(s)))

EndsWith(s, suffix) ==
  /\ Len(suffix) <= Len(s)
  /\ SubSeq(s, Len(s) - Len(suffix) + 1, Len(s)) = suffix

\* C8: the outline has exactly one newline-terminated line per node, whatever
\* the tag names, attribute values and texts are, and the i-th line describes
\* the i-th node in pre-order.
C8_OneLinePerNode ==
  textTree # <<>> =>
    LET root == tree[1]
        paths == PreorderPaths(root, <<>>)
        lines == SplitLines(textTree[1], <<>>)
    IN /\ Count(textTree[1], Newline) = NodeCount(root)
       /\ Len(lines) = Len(paths)
       /\ \A i \in 1..Len(paths) : EndsWith(lines[i], TextTreeDisplay(NodeAt(root, paths[i])))

\* ------------------------------------------------------------- C9, C10
RECURSIVE DistinctTags(_, _)
\* The tag names of a child list, in order of first occurrence.
DistinctTags(children, seen) ==
  IF children = <<>> THEN <<>>
  ELSE IF Head(children).tagName \in seen THEN DistinctTags(Tail(children), seen)
  ELSE <<Head(children).tagName>>
       \o DistinctTags(Tail(children), seen \cup {Head(children).tagName})

\* The children of node with tag name tag, in document order.
ChildrenNamed(node, tag) ==
  LET Named(c) == c.tagName = tag IN SelectSeq(node.children, Named)

\* The keys of an object that are among tags, in the object's key order.
KeysAmong(ents, tags) ==
  LET Among(e) == e.k \in tags IN [i \in 1..Len(SelectSeq(ents, Among)) |-> SelectSeq(ents, Among)[i].k]

\* C9: a leaf (no children, non-empty text), at the root or nested, reduces to
\* its text string, never a mapping; every other node reduces to a mapping.
C9_LeafReduction ==
  jsonObject # <<>> =>
    LET root == tree[1] IN
    /\ jsonObject[1] = xmlNodeToObject(root)
    /\ \A p \in Range(PreorderPaths(root, <<>>)) :
         LET n == NodeAt(root, p)
             r == IF p = <<>> THEN jsonObject[1] ELSE xmlNodeToObject(n)
         IN IF IsLeaf(n) THEN r = StrVal(n.textContent) ELSE r.t = "obj"

\* C10: for every node with children, each child tag name is a key of the
\* mapping; the child-tag keys are in order of first occurrence; a tag that
\* occurs once maps to that child's transform; a tag that occurs k > 1 times
\* maps to the array of the k transforms in document order.
C10_SiblingGrouping ==
  jsonObject # <<>> =>
    LET root == tree[1] IN
    \A p \in Range(PreorderPaths(root, <<>>)) :
      LET n == NodeAt(root, p)
          r == IF p = <<>> THEN jsonObject[1] ELSE xmlNodeToObject(n)
          tags == DistinctTags(n.children, {})
      IN IsBranch(n) =>
           /\ r.t = "obj"
           /\ KeysAmong(r.ents, Range(tags)) = tags
           /\ \A i \in 1..Len(tags) :
                LET named == ChildrenNamed(n, tags[i]) IN
                /\ HasOwn(r.ents, tags[i])
                /\ GetOwn(r.ents, tags[i]) =
                     IF Len(named) = 1 THEN xmlNodeToObject(named[1])
                     ELSE ArrVal([j \in 1..Len(named) |-> xmlNodeToObject(named[j])])

\* -------------------------------------------------------------- C6, C7
\* The activations that are expanding their children.
ExpandingFrames == {k \in 1..Len(dtdStack) : dtdStack[k].st = "children"}

\* The cycle guard: on the call stack no element is being expanded twice,
\* an element found in its ancestor set is never expanded, every activation's
\* ancestor set is the set of elements being expanded below it, a child that
\* was in the ancestor set of its call came back as a self-closing tag, and
\* the stack is never deeper than the number of declarations plus one.
C6_CycleGuard ==
  /\ \A k, m \in ExpandingFrames : k # m => dtdStack[k].elementName # dtdStack[m].elementName
  /\ \A k \in ExpandingFrames : dtdStack[k].elementName \notin dtdStack[k].ancestors
  /\ \A k \in 1..Len(dtdStack) :
       dtdStack[k].ancestors = {dtdStack[m].elementName : m \in 1..(k - 1)}
  /\ \A k \in ExpandingFrames :
       LET f == dtdStack[k] IN
       \A i \in 1..Len(f.rendered) :
         f.children[i] \in f.ancestors \cup {f.elementName}
           => f.rendered[i] = SelfClosingTag(f.children[i], f.depth + 1)
  /\ Len(dtdStack) <= Len(grammar.decls) + 1

RECURSIVE CallBound(_, _)
\* 1 + n + n^2 + ... + n^d: the activations of a build in which every
\* expansion has at most n children and no path is deeper than d.
CallBound(n, d) == IF d = 0 THEN 1 ELSE 1 + n * CallBound(n, d - 1)

\* Every activation takes at most three steps (called, entered, returned).
StepBound(g) == 1 + 3 * CallBound(Len(g.decls), Len(g.decls))

\* C6: the recursive build terminates for every grammar, cyclic ones
\* included (it is never stuck before it has returned, and it returns within
\* a number of steps fixed by the grammar's size), and the cycle guard holds
\* all the way: an element found in its ancestor set is rendered self-closing
\* and no element is expanded twice on a path.
C6_CycleSafety ==
  /\ C6_CycleGuard
  /\ dtdPc # "overflow"
  /\ dtdPc = "building" => dtdStack # <<>>
  /\ dtdSteps <= StepBound(grammar)

\* C6 witness: the build of a cyclic grammar has finished, and it closed the
\* cycle with a self-closing tag for the root element inside the root.
C6_Witness ==
  /\ dtdPc = "done"
  /\ \E c \in Range(DeclaredChildren(grammar, dtdRoot[1])) :
       c # dtdRoot[1] /\ dtdRoot[1] \in Range(DeclaredChildren(grammar, c))
  /\ grammar.models[dtdRoot[1]].type = "ELEMENT"
  /\ Count(dtdResult[1], dtdRoot[1]) >= 3

\* The declared elements whose content model names c as a child.
ReferencedBy(g, c) == {e \in Range(g.decls) : c \in Range(g.models[e].children)}

\* C7: the root is the first declared element that no OTHER declared element
\* references (a reference to itself does not count); only when every
\* declared element is referenced by another one is it the first declared.
C7_RootInference ==
  dtdRoot # <<>> =>
    LET unreferenced == {k \in 1..Len(grammar.decls) :
                           ReferencedBy(grammar, grammar.decls[k]) \subseteq {grammar.decls[k]}}
    IN dtdRoot[1] = IF unreferenced # {}
                    THEN grammar.decls[CHOOSE k \in unreferenced : \A m \in unreferenced : k <= m]
                    ELSE grammar.decls[1]

\* ---------------------------------------------------------------- C11
\* What childGroups makes of the children named alike: the transform of the
\* only one, or the array of their transforms.
GroupValue(named) ==
  IF Len(named) = 1 THEN xmlNodeToObject(named[1])
  ELSE ArrVal([j \in 1..Len(named) |-> xmlNodeToObject(named[j])])

\* C11: in the mapping of every branch or empty node each attribute a = v is
\* the entry "_a": v, and no attribute entry takes the place of a child entry
\* (nor a child entry that of an attribute): every child tag name still maps
\* to its children's transform, whatever the tag and attribute names are.
C11_AttributeKeys ==
  jsonObject # <<>> =>
    LET root == tree[1] IN
    \A p \in Range(PreorderPaths(root, <<>>)) :
      LET n == NodeAt(root, p)
          r == IF p = <<>> THEN jsonObject[1] ELSE xmlNodeToObject(n)
          tags == DistinctTags(n.children, {})
      IN (~IsLeaf(n) /\ r.t = "obj") =>
           /\ \A i \in 1..Len(n.attributes) :
                /\ HasOwn(r.ents, <<"_">> \o n.attributes[i].k)
                /\ GetOwn(r.ents, <<"_">> \o n.attributes[i].k) = StrVal(n.attributes[i].v)
           /\ \A i \in 1..Len(tags) :
                /\ HasOwn(r.ents, tags[i])
                /\ GetOwn(r.ents, tags[i]) = GroupValue(ChildrenNamed(n, tags[i]))

\* ---------------------------------------------------------------- C12
RECURSIVE NodeItems(_)
\* The items of a parse result that convertOrderedToTree makes a node of
\* (all but declarations and text), in document order.
NodeItems(f) ==
  IF f = <<>> THEN <<>>
  ELSE (IF Head(f).key \in {XmlDeclKey, TextKey} THEN <<>>
        ELSE <<Head(f)>> \o NodeItems(Head(f).kids)) \o NodeItems(Tail(f))

RECURSIVE ForestNodes(_)
\* The nodes of a list of trees, in document order.
ForestNodes(ns) ==
  IF ns = <<>> THEN <<>>
  ELSE <<Head(ns)>> \o ForestNodes(Head(ns).children) \o ForestNodes(Tail(ns))

TextItemsOf(it) == SelectSeq(it.kids, IsTextItem)

\* C12: the node of an element has as textContent the value of the LAST text
\* item among the element's children (earlier ones are overwritten, not
\* concatenated), "" when there is none, and no text item becomes a child.
C12_LastTextWins ==
  tree # <<>> =>
    LET items == NodeItems(parsed)
        nodes == ForestNodes(TopNodes(tree[1]))
    IN /\ Len(nodes) = Len(items)
       /\ \A k \in 1..Len(items) :
            IsElementItem(items[k]) =>
              LET texts == TextItemsOf(items[k]) IN
              /\ nodes[k].tagName = items[k].key
              /\ nodes[k].textContent = IF texts = <<>> THEN <<>> ELSE texts[Len(texts)].text
              /\ Len(nodes[k].children) = Len(items[k].kids) - Len(texts)
              /\ \A c \in Range(nodes[k].children) : c.tagName # TextKey

\* C12 witness: a tree was built from an element with two text runs of
\* different values.
C12_Witness ==
  /\ tree # <<>>
  /\ \E it \in Range(NodeItems(parsed)) :
       /\ IsElementItem(it)
       /\ Len(TextItemsOf(it)) >= 2
       /\ TextItemsOf(it)[1].text # TextItemsOf(it)[Len(TextItemsOf(it))].text

\* ---------------------------------------------------------------- C13
RECURSIVE WellShaped(_)
\* The shape convertOrderedToTree expects: every item is an object with a
\* content key; the text key holds a string, any other key an array of
\* items of that shape.
WellShaped(f) ==
  \A i \in 1..Len(f) :
    /\ f[i].vt # "null"
    /\ f[i].key # <<>>
    /\ IF f[i].key = TextKey THEN f[i].vt = "string"
       ELSE f[i].vt = "array" /\ WellShaped(f[i].kids)

RECURSIVE TagCount(_, _)
\* How often the skeleton renders element name: its opening and self-closing
\* tags.
TagCount(s, name) ==
  IF Len(s) < 2 THEN 0
  ELSE (IF s[1] = "<" /\ s[2] = name THEN 1 ELSE 0) + TagCount(Tail(s), name)

\* C14: the skeleton of a grammar with at least one declaration renders
\* every declared element exactly once: none is missing, none is repeated.
C14_Coverage ==
  dtdPc = "done" => \A name \in Range(grammar.decls) : TagCount(dtdResult[1], name) = 1

\* C15: with zero element declarations the call fails with an error: it
\* returns nothing and neither root inference nor the build is entered;
\* with at least one declaration it never fails so and what it returns is a
\* skeleton.
C15_GrammarError ==
  dtdPc # "idle" =>
    /\ Len(grammar.decls) = 0 =>
         /\ dtdPc \in {"start", "error"}
         /\ dtdSteps >= 1 => dtdPc = "error"
         /\ dtdRoot = <<>> /\ dtdStack = <<>> /\ dtdResult = <<>>
    /\ Len(grammar.decls) > 0 =>
         /\ dtdPc # "error"
         /\ dtdSteps >= 1 => dtdRoot # <<>>
         /\ dtdPc = "done" => dtdResult # <<>> /\ dtdResult[1] # <<>>

\* C15 witness: the call on a grammar without declarations has failed.
C15_Witness == dtdPc = "error" /\ Len(grammar.decls) = 0 /\ dtdSteps = 1

\* ---------------------------------------------------------- C16, C17
\* C16: whichever renderers ran, in whichever order, the tree is still
\* the tree normalisation returned (no tagName, attribute, textContent or
\* child changed), and each output is what the renderer returns for that
\* tree.
C16_RenderersReadOnly ==
  tree # <<>> =>
    LET fresh == parseXml(parsed) IN
    /\ tree[1] = fresh
    /\ textTree # <<>> => textTree[1] = generateTextTree(fresh, <<>>, TRUE, TRUE)
    /\ mermaidMarkup # <<>> => mermaidMarkup[1] = generateMermaidMarkup(fresh)
    /\ jsonObject # <<>> => jsonObject[1] = xmlNodeToObject(fresh)

\* C16 witness: all three renderers have run on a tree with children.
C16_Witness ==
  /\ tree # <<>>
  /\ tree[1].children # <<>>
  /\ textTree # <<>>
  /\ mermaidMarkup # <<>>
  /\ jsonObject # <<>>

IsLastChild(root, p) ==
  p[Len(p)] = Len(NodeAt(root, SubSeq(p, 1, Len(p) - 1)).children)

\* The prefix the claim gives the line of the node at path p: nothing for
\* the root; else a bar or a blank for each ancestor below the root, top
\* down, then the tee or the corner.
ExpectedPrefix(root, p) ==
  IF p = <<>> THEN <<>>
  ELSE [k \in 1..(Len(p) - 1) |->
          IF IsLastChild(root, SubSeq(p, 1, k)) THEN "    " ELSE "|   "]
       \o <<IF IsLastChild(root, p) THEN "+-- " ELSE "|-- ">>

RECURSIVE ExpectedOutline(_, _)
ExpectedOutline(root, paths) ==
  IF paths = <<>> THEN <<>>
  ELSE ExpectedPrefix(root, Head(paths)) \o TextTreeDisplay(NodeAt(root, Head(paths)))
       \o <<Newline>> \o ExpectedOutline(root, Tail(paths))

RequestFails(text, fileName) ==
  IF IsDtdFileName(fileName) THEN ~generateXmlFromDtd(text).ok ELSE text.kind = "malformed"

\* C18: a render request leaves nothing of the requests before it: the panel
\* is what _update makes of this request's input alone, it shows the error
\* page when the input fails (parse error, grammar error), and the sidebar
\* then holds no tree; and whenever the active XML document's text does not
\* parse the provider holds no tree (never the one of an earlier refresh),
\* while for a text that parses it holds that text's tree.
C18_FailuresDoNotPersist ==
  [][/\ (OpenTreeViewCommand /\ activeEditor # <<>>
           /\ isXmlOrDtdFile(documents[activeEditor[1]].fileName)) =>
          LET doc == documents[activeEditor[1]] IN
          /\ panel' = <<update(doc.text, doc.fileName)>>
          /\ RequestFails(doc.text, doc.fileName) =>
               /\ panel'[1].html.page = "error"
               /\ panel'[1].html.textTree = <<>> /\ panel'[1].html.xmlSkeleton = <<>>
               /\ rootNode' = <<>>
     /\ (activeEditor' # <<>> /\ isXmlFile(documents'[activeEditor'[1]].fileName)) =>
          LET text == documents'[activeEditor'[1]].text IN
          /\ ParseThrows(text) => rootNode' = <<>>
          /\ (~ParseThrows(text) /\ text.kind # "empty") => rootNode' = <<parseXml(text.parsed)>>
    ]_vars

\* C18 witness: the panel shows the error page of a request on the active
\* XML document, whose text does not parse, and the sidebar holds no tree.
C18_Witness ==
  /\ panel # <<>>
  /\ panel[1].html.page = "error"
  /\ activeEditor # <<>>
  /\ panel[1].title = documents[activeEditor[1]].fileName
  /\ isXmlFile(documents[activeEditor[1]].fileName)
  /\ documents[activeEditor[1]].text.kind = "malformed"
  /\ rootNode = <<>>

\* C19: the provider's tree is the tree of the active editor's text when
\* the active file is an .xml file whose text parses, and the sidebar is
\* empty otherwise (no active editor, another kind of file, a parse failure).
C19_SidebarInSync ==
  documents # <<>> =>
    rootNode = IF /\ activeEditor # <<>>
                  /\ isXmlFile(documents[activeEditor[1]].fileName)
                  /\ ~ParseThrows(documents[activeEditor[1]].text)
               THEN <<parseXml(documents[activeEditor[1]].text.parsed)>>
               ELSE <<>>

\* ---------------------------------------------------------------- C30
\* C30: every attribute a = v of every node of the tree, leaf nodes
\* included, is in the object view of that node as the entry "_a": v.
C30_AttributesSurvive ==
  (jsonObject # <<>> /\ jsonObject[1].t # "throw") =>
    \A n \in Range(ForestNodes(<<tree[1]>>)) :
      LET r == IF n = tree[1] THEN jsonObject[1] ELSE xmlNodeToObject(n) IN
      \A i \in 1..Len(n.attributes) :
        /\ r.t = "obj"
        /\ HasOwn(r.ents, <<"_">> \o n.attributes[i].k)
        /\ GetOwn(r.ents, <<"_">> \o n.attributes[i].k) = StrVal(n.attributes[i].v)

\* ---------------------------------------------------------------- C22
IsEdgeLine(l) == l.kind = "edge"
EdgeLines(lines) == SelectSeq(lines, IsEdgeLine)

\* Where the markup declares Nid, and where it draws the edge into Nid.
DeclPositions(lines, id) == {k \in 1..Len(lines) : lines[k].kind = "decl" /\ lines[k].id = id}
EdgePositions(lines, id) == {k \in 1..Len(lines) : lines[k].kind = "edge" /\ lines[k].id = id}

\* Path q is below path p.
IsDescendant(q, p) == Len(q) > Len(p) /\ SubSeq(q, 1, Len(p)) = p

\* C22: the markup has one edge per non-root node, from its parent's
\* identifier to its own, on the line right after the node's declaration and
\* before the declaration of each of its descendants; no edge enters the
\* root, so there are (nodes - 1) edges, each from a smaller identifier to a
\* larger one.
C22_EdgeEmission ==
  mermaidMarkup # <<>> =>
    LET root == tree[1]
        lines == mermaidMarkup[1]
    IN /\ Len(EdgeLines(lines)) = NodeCount(root) - 1
       /\ EdgePositions(lines, 0) = {}
       /\ \A l \in Range(EdgeLines(lines)) : l.from < l.id
       /\ \A p \in NonRootPaths(root) :
            LET id == IdOfPath(root, p)
                parent == IdOfPath(root, SubSeq(p, 1, Len(p) - 1))
            IN /\ Cardinality(EdgePositions(lines, id)) = 1
               /\ Cardinality(DeclPositions(lines, id)) = 1
               /\ \A e \in EdgePositions(lines, id) :
                    /\ lines[e].from = parent
                    /\ e - 1 \in DeclPositions(lines, id)
                    /\ \A q \in NonRootPaths(root) :
                         IsDescendant(q, p) =>
                           \A d \in DeclPositions(lines, IdOfPath(root, q)) : d > e

\* C22 witness: markup of a tree with a grandchild and a later child of the
\* root, whose edge starts two identifiers back.
C22_Witness ==
  /\ mermaidMarkup # <<>>
  /\ Len(tree[1].children) >= 2
  /\ tree[1].children[1].children # <<>>
  /\ \E l \in Range(EdgeLines(mermaidMarkup[1])) : l.id - l.from >= 2

\* ---------------------------------------------------------------- C21
\* One character of an attribute value, with the five XML characters escaped.
EscapedChar(c) ==
  IF c = "&" THEN "&amp;" ELSE IF c = "\"" THEN "&quot;" ELSE IF c = "<" THEN "&lt;"
  ELSE IF c = ">" THEN "&gt;" ELSE IF c = "'" THEN "&apos;" ELSE c

RECURSIVE ExpectedAttributes(_)
\* The attribute string the claim gives an element with these declared
\* attributes: nothing for IMPLIED, name="" for REQUIRED, name="escaped
\* value" for a fixed or default value.
ExpectedAttributes(attrs) ==
  IF attrs = <<>> THEN <<>>
  ELSE LET a == Head(attrs) IN
       (IF a.defaultDecl = "#IMPLIED" THEN <<>>
        ELSE IF a.defaultDecl = "#REQUIRED" THEN <<" ", a.name, "=", "\"", "\"">>
        ELSE <<" ", a.name, "=", "\"">>
             \o [k \in 1..Len(a.defaultValue) |-> EscapedChar(a.defaultValue[k])]
             \o <<"\"">>)
       \o ExpectedAttributes(Tail(attrs))

\* The opening and self-closing tags of the skeleton s: where they start.
TagStarts(s) == {k \in 1..(Len(s) - 1) : s[k] = "<" /\ s[k + 1] \in ElementNames}

\* C21: every tag of the skeleton (self-closing, cycle guard included, with
\* text, or with children) carries the attribute string of its element:
\* nothing for an IMPLIED attribute, name="" for a REQUIRED one, name="the
\* escaped value" for a fixed or default value.
C21_AttributeRendering ==
  dtdPc = "done" =>
    LET s == dtdResult[1] IN
    \A k \in TagStarts(s) :
      LET expected == ExpectedAttributes(ElementAttributes(s[k + 1]))
          end == k + 2 + Len(expected)
      IN /\ end <= Len(s)
         /\ SubSeq(s, k + 2, end - 1) = expected
         /\ s[end] \in {">", "/>"}

\* ---------------------------------------------------------------- C23
\* D of the claim: the children the content model of name refers to that
\* are declared, in the content model's order.
ClaimedD(g, name) ==
  LET m == g.models[name]
      hits == {k \in 1..Len(m.children) : m.children[k] \in Range(g.decls)}
  IN [j \in 1..Cardinality(hits) |->
        m.children[CHOOSE k \in hits : Cardinality({h \in hits : h < k}) = j - 1]]

RECURSIVE ClaimedSkeleton(_, _, _, _)
\* The case analysis of the claim for element name, built below ancestors at
\* depth (an element among its ancestors is not unfolded, so the unfolding
\* ends).
ClaimedSkeleton(g, name, ancestors, depth) ==
  LET m == g.models[name]
      D == ClaimedD(g, name)
  IN IF name \in ancestors THEN SelfClosingTag(name, depth)
     ELSE IF m.type \in {"NONE", "EMPTY"} THEN SelfClosingTag(name, depth)
     ELSE IF m.type = "PCDATA" THEN TextTag(name, depth)
     ELSE IF D = <<>>
     THEN (IF m.type \in {"ANY", "MIXED"} THEN TextTag(name, depth)
           ELSE SelfClosingTag(name, depth))
     ELSE NestedTag(name, depth,
            [j \in 1..Len(D) |-> ClaimedSkeleton(g, D[j], ancestors \cup {name}, depth + 1)])

\* C23: every activation of buildElement follows the case analysis: an
\* activation that has called for its children is of an element outside its
\* ancestors with a content model other than none, EMPTY and PCDATA and a
\* non-empty D, which it goes through in order; each child is built at
\* depth + 1 below the activation's ancestors plus its own element (never a
\* sibling); what a child returned, and what the build returns in the end,
\* is the skeleton of the case analysis.
C23_ContentModelCases ==
  /\ \A k \in 1..Len(dtdStack) :
       LET f == dtdStack[k] IN
       /\ f.st = "children" =>
            /\ f.elementName \notin f.ancestors
            /\ grammar.models[f.elementName].type \notin {"NONE", "EMPTY", "PCDATA"}
            /\ f.children = ClaimedD(grammar, f.elementName)
            /\ f.children # <<>>
            /\ Len(f.rendered) <= Len(f.children)
            /\ \A j \in 1..Len(f.rendered) :
                 f.rendered[j] = ClaimedSkeleton(grammar, f.children[j],
                                   f.ancestors \cup {f.elementName}, f.depth + 1)
       /\ k < Len(dtdStack) =>
            /\ f.st = "children"
            /\ Len(f.rendered) < Len(f.children)
            /\ dtdStack[k + 1].elementName = f.children[Len(f.rendered) + 1]
            /\ dtdStack[k + 1].ancestors = f.ancestors \cup {f.elementName}
            /\ dtdStack[k + 1].depth = f.depth + 1
  /\ dtdPc = "done" => dtdResult[1] = ClaimedSkeleton(grammar, dtdRoot[1], {}, 0)

\* C23 witness: a finished skeleton whose root has a declared child and an
\* undeclared one, the declared child being ANY or MIXED without declared
\* children of its own (open/text/close inside a nested tag).
C23_Witness ==
  /\ dtdPc = "done"
  /\ LET m == grammar.models[dtdRoot[1]] IN
     /\ "U" \in Range(m.children)
     /\ \E c \in Range(ClaimedD(grammar, dtdRoot[1])) :
          /\ grammar.models[c].type \in {"ANY", "MIXED"}
          /\ ClaimedD(grammar, c) = <<>>

\* C24: the target file of a save session is written at most once: no two
\* calls of writeFile are for the same saveId, whatever chunk messages
\* (repeated ones included), timeouts and write completions interleave.
C24_WritesAtMostOnce ==
  \A i, j \in 1..Len(files) : files[i].saveId = files[j].saveId => i = j

\* C25: once dispose() has run on a panel, its pending-save map is empty and
\* no timeout of a session of that panel is armed, in every later state.
C25_DisposeLeavesNothing ==
  \A p \in 1..Len(panels) :
    panels[p].disposed =>
      /\ panels[p].pendingImageSaves = {}
      /\ \A t \in timers : saves[t.saveId].panel # p

\* The panel in whose map session s is pending, if any.
IsPending(s) == \E p \in 1..Len(panels) : s \in panels[p].pendingImageSaves

\* The calls of writeFile for session s so far.
WritesOf(fs, s) == {i \in 1..Len(fs) : fs[i].saveId = s}

\* The chunks of indices 0 .. total-1, in index order.
InIndexOrder(save) == [k \in 1..(save.total[1] \div 2) |-> save.chunks[2 * (k - 1)]]

\* C26: `received` of a pending session is the number of distinct indices
\* it has a chunk for; a call of writeFile happens only when the session has
\* a chunk for every index 0 .. total-1, and with these chunks joined in
\* index order; a chunk message for a pending session whose index or total
\* is non-finite or out of range, or whose total is not the session's,
\* removes the session, posts an error and writes nothing; and nothing is
\* written for a session that is not pending.
C26_Completeness ==
  /\ [](\A s \in 1..Len(saves) :
          IsPending(s) =>
            saves[s].received = Cardinality({h \in ArrayKeys : saves[s].chunks[h] # Undefined}))
  /\ [][\A s \in 1..Len(saves) :
          WritesOf(files', s) # WritesOf(files, s) =>
            /\ IsPending(s)
            /\ saves'[s].total # <<>>
            /\ \A k \in 0..((saves'[s].total[1] \div 2) - 1) : saves'[s].chunks[2 * k] # Undefined
            /\ files'[Len(files')].bytes = InIndexOrder(saves'[s])]_vars
  /\ [][\A p \in 1..Len(panels), s \in 1..Len(saves), index \in IndexValues,
          total \in TotalValues, chunk \in ChunkValues :
          /\ s \in panels[p].pendingImageSaves
          /\ \/ IsInvalidChunk(index, total)
             \/ saves[s].total # <<>> /\ saves[s].total[1] # total.h
          /\ ChunkMessage(p, s, index, total, chunk)
          => /\ ~IsPending(s)'
             /\ lastPost'.type = "saveMermaidImageError"
             /\ files' = files]_vars

\* The armed timeouts of session s.
ArmedFor(s) == {t \in timers : t.saveId = s}

LivePanels == {p \in 1..Len(panels) : ~panels[p].disposed}

\* C28: at most one panel is live; currentPanel is defined exactly when a
\* live panel exists, and is that panel; createOrShow while a panel is live
\* creates no panel, keeps currentPanel and renders the live panel with the
\* new content and file name; createOrShow without a live panel creates a
\* fresh panel, rendered with the content and file name, and makes it
\* currentPanel, the disposed panels staying as they are.
C28_SinglePanel ==
  /\ [](/\ Cardinality(LivePanels) <= 1
        /\ currentPanel # <<>> <=> LivePanels # {}
        /\ currentPanel # <<>> => LivePanels = {currentPanel[1]})
  /\ [][\A req \in PanelRequests :
          dialogs' = dialogs /\ timers' = timers /\ CreateOrShowWith(req) =>
            LET shown == update(req.text, req.fileName) IN
            IF LivePanels # {}
            THEN /\ Len(panels') = Len(panels)
                 /\ currentPanel' = currentPanel
                 /\ LivePanels' = LivePanels
                 /\ \A p \in LivePanels :
                      panels'[p].title = shown.title /\ panels'[p].html = shown.html
            ELSE /\ Len(panels') = Len(panels) + 1
                 /\ \A p \in 1..Len(panels) : panels'[p] = panels[p]
                 /\ currentPanel' = <<Len(panels')>>
                 /\ LivePanels' = {Len(panels')}
                 /\ panels'[Len(panels')].pendingImageSaves = {}
                 /\ panels'[Len(panels')].title = shown.title
                 /\ panels'[Len(panels')].html = shown.html]_vars

\* C28 witness: the first panel was disposed, createOrShow then created a
\* second one, and a later createOrShow re-rendered that one for another
\* file than the one it was created for.
C28_Witness ==
  /\ Len(panels) = 2
  /\ panels[1].disposed
  /\ currentPanel = <<2>>
  /\ ~panels[2].disposed
  /\ panels[2].title # panels[2].fileName

\* C29: the default file name a save dialog is opened with is derived from
\* the file name of the panel's most recent _update (its title), that is
\* from the file whose diagram the panel shows.
C29_DialogFollowsDisplayedFile ==
  [][\A d \in BagToSet(dialogs') :
       CopiesIn(d, dialogs') > CopiesIn(d, dialogs) =>
         d.defaultName = DefaultName(panels[d.panel].title)]_vars
====
